---- MODULE Spec2Model ----
(***************************************************************************)
(* RemitDEX: the remittance orchestrator (RemittanceEngine), its order     *)
(* store (OrderRepository) and its error classifier and retry scheduler    *)
(* (DeliveryErrorHandler).                                                 *)
(*                                                                         *)
(* An asynchronous call is modelled as a sequence of steps, one per        *)
(* synchronous run between two awaits.  Steps of different calls           *)
(* interleave freely, as they do on the JavaScript event loop.             *)
(***************************************************************************)
EXTENDS Integers, Sequences, FiniteSets, TLC

\* ------------------------------------------------------------------ bounds
MaxOrders == 2      \* executeRemittance calls (one order each)
MaxInFlight == 2    \* handleDeliveryError calls made directly on the handler
                    \* that are in flight at the same time
MaxFired == 4       \* delivery-retry events followed per order
MaxKw == 1          \* keywords one error message may contain
MaxSaved == 3       \* save calls on the order repository

OrderIds == 1..MaxOrders

\* --------------------------------------------------------- thrown values
\* A thrown value is null/undefined, or an object (Error or plain object)
\* with an optional message, an optional code, an optional
\* response.data.error_code (rcode), an optional response.data.error
\* (rerror), and the value its toString() returns (str).  A message is the
\* set of the classifier's keywords it contains; a thrown primitive string behaves as an object
\* with that message and no code.  A string code is <<first character,
\* rest>>, which is what startsWith('E') looks at.
Keywords ==
  {"insufficient", "invalid recipient", "KYC", "compliance", "blocked",
   "rate expired", "limit exceeded"}

Absent == [t |-> "absent", v |-> <<"", "">>, kw |-> {}]
NonString == [t |-> "num", v |-> <<"", "">>, kw |-> {}]
StrCode(first, rest) == [t |-> "str", v |-> <<first, rest>>, kw |-> {}]
StrMsg(kws) == [t |-> "str", v |-> <<"", "">>, kw |-> kws]

INSUFFICIENT_BALANCE == StrCode("I", "NSUFFICIENT_BALANCE")
INVALID_DEST == StrCode("I", "NVALID_DEST")
NEEDS_INFO == StrCode("N", "EEDS_INFO")
ECONNREFUSED == StrCode("E", "CONNREFUSED")
ENOTFOUND == StrCode("E", "NOTFOUND")
RATE_EXPIRED_CODE == StrCode("R", "ATE_EXPIRED")
LIMIT_EXCEEDED_CODE == StrCode("L", "IMIT_EXCEEDED")
ETIMEDOUT == StrCode("E", "TIMEDOUT")
ECONNABORTED == StrCode("E", "CONNABORTED")
EPIPE == StrCode("E", "PIPE")
UNKNOWN_CODE == StrCode("U", "NKNOWN")

CodeValues ==
  {Absent, NonString, INSUFFICIENT_BALANCE, INVALID_DEST, NEEDS_INFO,
   ECONNREFUSED, ENOTFOUND, RATE_EXPIRED_CODE, LIMIT_EXCEEDED_CODE,
   ETIMEDOUT, ECONNABORTED, EPIPE, UNKNOWN_CODE}

MsgValues ==
  {Absent, NonString} \cup
  {StrMsg(k) : k \in {s \in SUBSET Keywords : Cardinality(s) <= MaxKw}}

\* What toString() of a thrown object returns: the built-in text
\* ('[object Object]', 'Error', 'TypeError': no keyword), the text of a
\* named Error or of an own toString (which may hold a keyword), or a
\* value that is not a string.
StrValues ==
  {NonString} \cup
  {StrMsg(k) : k \in {s \in SUBSET Keywords : Cardinality(s) <= MaxKw}}

NullError ==
  [kind |-> "null", msg |-> Absent, code |-> Absent, rcode |-> Absent,
   rerror |-> Absent, str |-> Absent]
ErrorObj(m, c, r) ==
  [kind |-> "obj", msg |-> m, code |-> c, rcode |-> r, rerror |-> Absent,
   str |-> StrMsg({})]
\* An object with no message whose toString() returns s.
ErrorWithToString(c, r, s) ==
  [kind |-> "obj", msg |-> Absent, code |-> c, rcode |-> r,
   rerror |-> Absent, str |-> s]
\* The HTTP client's error for a response whose body has the error text e.
ResponseError(m, e) == [ErrorObj(m, Absent, Absent) EXCEPT !.rerror = e]
PlainError(kws) == ErrorObj(StrMsg(kws), Absent, Absent)

AllErrors ==
  {NullError} \cup
  {ErrorObj(m, c, r) : m \in MsgValues, c \in CodeValues, r \in CodeValues}
  \cup
  {ErrorWithToString(c, r, s) :
     c \in CodeValues, r \in CodeValues, s \in StrValues}

\* JavaScript truthiness of an optional field (a present number or string
\* here is never 0 or '').
Truthy(x) == x.t # "absent"

\* String.prototype.includes on a message.
includes(m, k) == k \in m.kw

\* String.prototype.startsWith on a string code.
startsWith(c, ch) == c.v[1] = ch

\* error.toString(): the text the object's toString method returns.
toString(error) == error.str

\* --------------------------------------------------------- DeliveryError
DeliveryErrorType ==
  {"INSUFFICIENT_FUNDS", "INVALID_RECIPIENT", "KYC_REQUIRED",
   "COMPLIANCE_BLOCKED", "ANCHOR_UNAVAILABLE", "RATE_EXPIRED",
   "LIMIT_EXCEEDED", "TECHNICAL_ERROR", "NETWORK_ERROR", "TIMEOUT"}

\* The DeliveryError classifyError returns; threw = TRUE stands for the
\* TypeError the JavaScript runtime raises inside classifyError.
DeliveryError(type, retryable, resolution) ==
  [threw |-> FALSE, type |-> type, retryable |-> retryable,
   estimatedResolution |-> resolution]

TypeErrorThrown ==
  [threw |-> TRUE, type |-> "TypeError", retryable |-> FALSE,
   estimatedResolution |-> 0]

classifyError_order(error) ==
  IF error.kind = "null" THEN TypeErrorThrown
  ELSE
    LET errorMessage == IF Truthy(error.msg) THEN error.msg ELSE toString(error)
        errorCode == IF Truthy(error.code) THEN error.code ELSE error.rcode
    IN
    IF errorMessage.t # "str" THEN TypeErrorThrown
    ELSE IF error.code = ECONNREFUSED \/ error.code = ENOTFOUND
      THEN DeliveryError("ANCHOR_UNAVAILABLE", TRUE, 30)
    ELSE IF includes(errorMessage, "insufficient") \/ errorCode = INSUFFICIENT_BALANCE
      THEN DeliveryError("INSUFFICIENT_FUNDS", TRUE, 15)
    ELSE IF includes(errorMessage, "invalid recipient") \/ errorCode = INVALID_DEST
      THEN DeliveryError("INVALID_RECIPIENT", FALSE, 0)
    ELSE IF includes(errorMessage, "KYC") \/ errorCode = NEEDS_INFO
      THEN DeliveryError("KYC_REQUIRED", FALSE, 0)
    ELSE IF includes(errorMessage, "compliance") \/ includes(errorMessage, "blocked")
      THEN DeliveryError("COMPLIANCE_BLOCKED", FALSE, 0)
    ELSE IF includes(errorMessage, "rate expired") \/ errorCode = RATE_EXPIRED_CODE
      THEN DeliveryError("RATE_EXPIRED", TRUE, 0)
    ELSE IF includes(errorMessage, "limit exceeded") \/ errorCode = LIMIT_EXCEEDED_CODE
      THEN DeliveryError("LIMIT_EXCEEDED", FALSE, 0)
    ELSE IF error.code = ETIMEDOUT \/ error.code = ECONNABORTED
      THEN DeliveryError("TIMEOUT", TRUE, 5)
    ELSE IF Truthy(error.code) /\ error.code.t # "str" THEN TypeErrorThrown
    ELSE IF Truthy(error.code) /\ startsWith(error.code, "E")
      THEN DeliveryError("NETWORK_ERROR", TRUE, 10)
    ELSE DeliveryError("TECHNICAL_ERROR", TRUE, 60)

\* classifyError(error): the ten rules in source order, first match wins.
classifyError(error) ==
  IF error.kind = "null" THEN TypeErrorThrown
  ELSE
    LET errorMessage == IF Truthy(error.msg) THEN error.msg ELSE toString(error)
        errorCode == IF Truthy(error.code) THEN error.code ELSE error.rcode
    IN
    IF errorMessage.t # "str" THEN TypeErrorThrown
    ELSE IF includes(errorMessage, "insufficient") \/ errorCode = INSUFFICIENT_BALANCE
      THEN DeliveryError("INSUFFICIENT_FUNDS", TRUE, 15)
    ELSE IF includes(errorMessage, "invalid recipient") \/ errorCode = INVALID_DEST
      THEN DeliveryError("INVALID_RECIPIENT", FALSE, 0)
    ELSE IF includes(errorMessage, "KYC") \/ errorCode = NEEDS_INFO
      THEN DeliveryError("KYC_REQUIRED", FALSE, 0)
    ELSE IF includes(errorMessage, "compliance") \/ includes(errorMessage, "blocked")
      THEN DeliveryError("COMPLIANCE_BLOCKED", FALSE, 0)
    ELSE IF error.code = ECONNREFUSED \/ error.code = ENOTFOUND
      THEN DeliveryError("ANCHOR_UNAVAILABLE", TRUE, 30)
    ELSE IF includes(errorMessage, "rate expired") \/ errorCode = RATE_EXPIRED_CODE
      THEN DeliveryError("RATE_EXPIRED", TRUE, 0)
    ELSE IF includes(errorMessage, "limit exceeded") \/ errorCode = LIMIT_EXCEEDED_CODE
      THEN DeliveryError("LIMIT_EXCEEDED", FALSE, 0)
    ELSE IF error.code = ETIMEDOUT \/ error.code = ECONNABORTED
      THEN DeliveryError("TIMEOUT", TRUE, 5)
    ELSE IF Truthy(error.code) /\ error.code.t # "str" THEN TypeErrorThrown
    ELSE IF Truthy(error.code) /\ startsWith(error.code, "E")
      THEN DeliveryError("NETWORK_ERROR", TRUE, 10)
    ELSE DeliveryError("TECHNICAL_ERROR", TRUE, 60)

\* getUserFriendlyMessage: the per-kind table; messages[error.type] is
\* defined for all ten kinds, so the || error.message fallback is never
\* taken for a classified error.
UserMessages ==
  [t \in DeliveryErrorType |->
     CASE t = "INSUFFICIENT_FUNDS" ->
            "Service temporarily unavailable. Please try again in 15 minutes."
       [] t = "INVALID_RECIPIENT" ->
            "The recipient information provided is invalid. Please check and try again."
       [] t = "KYC_REQUIRED" ->
            "Additional verification is required to complete this transaction."
       [] t = "COMPLIANCE_BLOCKED" ->
            "This transaction cannot be processed due to regulatory requirements."
       [] t = "ANCHOR_UNAVAILABLE" ->
            "Our delivery partner is temporarily unavailable. We're working on it."
       [] t = "RATE_EXPIRED" ->
            "The exchange rate has expired. Getting you a new quote..."
       [] t = "LIMIT_EXCEEDED" ->
            "This amount exceeds your transaction limit."
       [] t = "TECHNICAL_ERROR" ->
            "Something went wrong. Our team has been notified."
       [] t = "NETWORK_ERROR" ->
            "Connection issue. Please check your internet and try again."
       [] t = "TIMEOUT" ->
            "The request took too long. Please try again."]

getUserFriendlyMessage(deliveryError) == UserMessages[deliveryError.type]

\* The message of the TypeError raised by the runtime inside classifyError.
TypeErrorMessage == "TypeError"

\* ---------------------------------------------------------- retry policy
RetryPolicy(maxAttempts, backoffMultiplier, initialDelay, maxDelay) ==
  [maxAttempts |-> maxAttempts, backoffMultiplier |-> backoffMultiplier,
   initialDelay |-> initialDelay, maxDelay |-> maxDelay]

\* initializeRetryPolicies
retryPolicies ==
  [default |-> RetryPolicy(3, 2, 5000, 300000),
   rate_expired |-> RetryPolicy(1, 1, 0, 0),
   compliance |-> RetryPolicy(0, 1, 0, 0)]

getRetryPolicy_default(errorType) == retryPolicies.default

\* getRetryPolicy: the policy of a classified kind.
getRetryPolicy(errorType) ==
  IF errorType = "RATE_EXPIRED" THEN retryPolicies.rate_expired
  ELSE IF errorType \in {"COMPLIANCE_BLOCKED", "KYC_REQUIRED"}
    THEN retryPolicies.compliance
  ELSE retryPolicies.default

RECURSIVE Pow(_, _)
Pow(b, n) == IF n = 0 THEN 1 ELSE b * Pow(b, n - 1)

Min(a, b) == IF a <= b THEN a ELSE b

retryDelay_linear(policy, attempts) ==
  Min(policy.initialDelay * (attempts + 1), policy.maxDelay)

\* scheduleRetry's delay: Math.min(initialDelay * multiplier^attempts, maxDelay)
retryDelay(policy, attempts) ==
  Min(policy.initialDelay * Pow(policy.backoffMultiplier, attempts),
      policy.maxDelay)


\* ----------------------------------------------------------------- state
Senders == {"0xA"}
Anchors == <<"VIBRANT_USD", "CLICK_PHP", "COWRIE_NGN", "SETTLE_EUR">>
AnchorCodes == {Anchors[i] : i \in 1..Len(Anchors)}

\* One slot per handleDeliveryError call in flight: slot i <= MaxOrders is
\* the call made by the catch block of the pipeline of order i, the other
\* slots are calls made directly on the handler.
HIds == 1..(MaxOrders + MaxInFlight)
TimerIds == 1..(MaxOrders + 1)

VARIABLES
  orders,        \* the RemittanceOrder objects, by id (status "none": not created)
  repoOrders,    \* OrderRepository.orders: the ids stored
  ordersByUser,  \* OrderRepository.ordersByUser
  engineOrders,  \* RemittanceEngine.orders: the ids stored
  metricsOrders, \* MetricsCollector.orders: ids passed to recordOrder
  resolverKey,   \* StellarBridge.resolverKeypair is set
  authTokens,    \* SEP6Service.authTokens of the two SEP6Service instances
  pc,            \* position of each executeRemittance call
  local,         \* locals of each executeRemittance call
  caught,        \* the value caught by the catch block of each call
  result,        \* what each executeRemittance call gave its caller
  extCalls,      \* external requests issued by each call, in order
  hcalls,        \* handleDeliveryError calls in flight
  lastDone,      \* summary of the handleDeliveryError call that ended last
  retryQueues,   \* DeliveryErrorHandler.retryQueues: order id -> timer
  retryAttempts, \* DeliveryErrorHandler.retryAttempts: order id -> count
  timers,        \* the runtime's pending setTimeout timers
  fired,         \* delivery-retry events emitted, per order
  cancelState,   \* per order: "never" (cancelRetries not called), "cancelled"
                 \* (called, no handleDeliveryError call begun since), "since"
                 \* (a call begun since), "retried" (a delivery-retry fired
                 \* while "cancelled")
  quote,         \* the RemittanceEngine.getQuote call: position, locals, result
  query          \* a call of a read-only service function: inputs and result

storeVars == <<repoOrders, ordersByUser, engineOrders, metricsOrders>>
callVars == <<pc, local, caught, result, extCalls, resolverKey, authTokens,
              quote, query>>
retryVars == <<retryQueues, retryAttempts, timers, fired, cancelState>>
vars == <<orders, storeVars, callVars, hcalls, lastDone, retryVars>>

NoOrder ==
  [status |-> "none", sender |-> "", htlcId |-> FALSE,
   stellarTxHash |-> FALSE, anchorTxId |-> FALSE, completedAt |-> FALSE]

NoTimer ==
  [active |-> FALSE, orderId |-> 0, attempts |-> 0, maxAttempts |-> 0,
   delay |-> 0, kind |-> "none", firedBefore |-> 0]

NoCall ==
  [pc |-> "idle", orderId |-> 0, err |-> TypeErrorThrown,
   scheduled |-> FALSE, refund |-> FALSE, manual |-> FALSE,
   attemptsLeft |-> FALSE]

NoneDone ==
  [orderId |-> 0, crashed |-> FALSE, retryable |-> FALSE,
   attemptsLeft |-> FALSE, scheduled |-> FALSE, refund |-> FALSE,
   manual |-> FALSE]

NoLocal ==
  [anchor |-> "none", country |-> "", currency |-> "", method |-> "",
   protocol |-> "none", stage |-> "none", raised |-> NullError]

NoResult == [k |-> "none", msg |-> ""]

\* No getQuote call yet.  Of a call: its parameters (fromTokenValid: the
\* source token is a 0x address of 40 hex digits; deliveryMethod "": none
\* given), the anchor found, whether the address of the wrapped token
\* found is such an address (toTokenValid, set once the token is looked
\* up), the aggregator's loop counter, the requests it
\* sent, the waits it made (ms), the failure before each wait, the body
\* the aggregator answered with (data), and what the call gave its caller
\* (k, msg, and the quote's route and totals; estimatedTime is a
\* JavaScript value).
NoQuote ==
  [pc |-> "idle", fromChain |-> <<>>, fromTokenValid |-> FALSE,
   toTokenValid |-> FALSE,
   toCountry |-> "", toCurrency |-> "", deliveryMethod |-> "",
   anchor |-> "none", attempt |-> 0, requests |-> 0, delays |-> <<>>,
   retriedAfter |-> <<>>, data |-> "", k |-> "none", msg |-> "",
   route |-> <<>>, totalFees |-> 0,
   estimatedTime |-> [t |-> "number", n |-> 0]]

\* No read-only call yet.  Of a call: the function, its arguments, and the
\* value (or the list of order ids) it returned.
NoQuery == [fn |-> "none", args |-> <<>>, value |-> "", list |-> <<>>]

\* updateStatus called without additionalData.
NoData == [f \in {} |-> FALSE]

\* Object.assign(order, additionalData): every field the data holds
\* replaces the order's field of that name.
assign(order, additionalData) ==
  LET field(f) == IF f \in DOMAIN additionalData
                  THEN additionalData[f] ELSE order[f]
  IN [status |-> field("status"), sender |-> field("sender"),
      htlcId |-> field("htlcId"), stellarTxHash |-> field("stellarTxHash"),
      anchorTxId |-> field("anchorTxId"), completedAt |-> field("completedAt")]

updateStatus_allStored(ords, repo, orderId, status, additionalData) ==
  IF orderId \in repo
  THEN [i \in DOMAIN ords |->
          IF i \in repo
          THEN assign([ords[i] EXCEPT !.status = status], additionalData)
          ELSE ords[i]]
  ELSE ords

\* OrderRepository.updateStatus: writes the stored object, if there is
\* one: the status first, then the additional data over it.
updateStatus(ords, repo, orderId, status, additionalData) ==
  IF orderId \in repo
  THEN [ords EXCEPT ![orderId] =
          assign([@ EXCEPT !.status = status], additionalData)]
  ELSE ords

\* this.retryAttempts.get(orderId) || 0   (-1 stands for no entry)
attemptsOf(ra, orderId) == IF ra[orderId] = -1 THEN 0 ELSE ra[orderId]

\* clearTimeout(handle): 0 stands for no handle
clearTimeout(tm, handle) ==
  IF handle = 0 THEN tm ELSE [tm EXCEPT ![handle] = NoTimer]


\* ------------------------------------------------- DeliveryErrorHandler
\* handleDeliveryError, up to its first await: classify the error (which
\* may raise a TypeError, and then the call rejects at once), write status
\* failed through the repository, then wait for updateStatus.
handleDeliveryError(h, orderId, error) ==
  LET deliveryError == classifyError(error) IN
  IF deliveryError.threw
  THEN /\ lastDone' = [NoneDone EXCEPT !.orderId = orderId, !.crashed = TRUE]
       /\ UNCHANGED <<orders, hcalls>>
  ELSE /\ orders' = updateStatus(orders, repoOrders, orderId, "failed", NoData)
       /\ hcalls' = [hcalls EXCEPT ![h] =
                       [NoCall EXCEPT !.pc = "h1", !.orderId = orderId,
                                      !.err = deliveryError]]
       /\ UNCHANGED lastDone

scheduleRetry_noClear(h, orderId, attempts, policy) ==
  LET handle == CHOOSE t \in TimerIds :
                  /\ ~timers[t].active
                  /\ \A u \in TimerIds : ~timers[u].active => t <= u
      timeout == [active |-> TRUE, orderId |-> orderId, attempts |-> attempts,
                  maxAttempts |-> policy.maxAttempts,
                  delay |-> retryDelay(policy, attempts),
                  kind |-> hcalls[h].err.type,
                  firedBefore |-> fired[orderId]]
  IN
  /\ \E t \in TimerIds : ~timers[t].active
  /\ timers' = [timers EXCEPT ![handle] = timeout]
  /\ retryQueues' = [retryQueues EXCEPT ![orderId] = handle]
  /\ hcalls' = [hcalls EXCEPT ![h].pc = "hret", ![h].scheduled = TRUE,
                              ![h].attemptsLeft = TRUE]
  /\ UNCHANGED <<orders, retryAttempts>>

\* scheduleRetry, the part after the attempts check: replace the order's
\* pending timer by a new one.  The callback keeps the attempts and policy
\* it was created with.
scheduleRetry(h, orderId, attempts, policy) ==
  LET cleared == clearTimeout(timers, retryQueues[orderId])
      handle == CHOOSE t \in TimerIds :
                  /\ ~cleared[t].active
                  /\ \A u \in TimerIds : ~cleared[u].active => t <= u
      timeout == [active |-> TRUE, orderId |-> orderId, attempts |-> attempts,
                  maxAttempts |-> policy.maxAttempts,
                  delay |-> retryDelay(policy, attempts),
                  kind |-> hcalls[h].err.type,
                  firedBefore |-> fired[orderId]]
  IN
  /\ \E t \in TimerIds : ~cleared[t].active
  /\ timers' = [cleared EXCEPT ![handle] = timeout]
  /\ retryQueues' = [retryQueues EXCEPT ![orderId] = handle]
  /\ hcalls' = [hcalls EXCEPT ![h].pc = "hret", ![h].scheduled = TRUE,
                              ![h].attemptsLeft = TRUE]
  /\ UNCHANGED <<orders, retryAttempts>>

\* handleMaxRetriesExceeded up to its await: forget the attempt count and
\* write status failed.
handleMaxRetriesExceeded(h, orderId) ==
  /\ retryAttempts' = [retryAttempts EXCEPT ![orderId] = -1]
  /\ orders' = updateStatus(orders, repoOrders, orderId, "failed", NoData)
  /\ hcalls' = [hcalls EXCEPT ![h].pc = "hmax"]
  /\ UNCHANGED <<timers, retryQueues>>

\* handleNonRetryableError up to its await: write status failed.
handleNonRetryableError(h, orderId) ==
  /\ orders' = updateStatus(orders, repoOrders, orderId, "failed", NoData)
  /\ hcalls' = [hcalls EXCEPT ![h].pc = "hnon"]
  /\ UNCHANGED <<timers, retryQueues, retryAttempts>>

\* handleDeliveryError resumes after updateStatus: emit delivery-error and
\* take the retry decision.
AfterStatusUpdate(h) ==
  LET orderId == hcalls[h].orderId
      error == hcalls[h].err
      attempts == attemptsOf(retryAttempts, orderId)
      policy == getRetryPolicy(error.type)
  IN
  /\ hcalls[h].pc = "h1"
  /\ IF error.retryable
     THEN IF attempts >= policy.maxAttempts
          THEN handleMaxRetriesExceeded(h, orderId)
          ELSE scheduleRetry(h, orderId, attempts, policy)
     ELSE handleNonRetryableError(h, orderId)
  /\ UNCHANGED <<storeVars, callVars, lastDone, fired, cancelState>>

\* handleMaxRetriesExceeded resumes: emit manual-review-required.
EmitManualReview(h) ==
  /\ hcalls[h].pc = "hmax"
  /\ hcalls' = [hcalls EXCEPT ![h].pc = "hret", ![h].manual = TRUE]
  /\ UNCHANGED <<orders, storeVars, callVars, lastDone, retryVars>>

\* handleNonRetryableError resumes: emit refund-required.
EmitRefundRequired(h) ==
  /\ hcalls[h].pc = "hnon"
  /\ hcalls' = [hcalls EXCEPT ![h].pc = "hret", ![h].refund = TRUE]
  /\ UNCHANGED <<orders, storeVars, callVars, lastDone, retryVars>>

HandlerReturn_returnsOrder(h) ==
  LET c == hcalls[h] IN
  /\ c.pc = "hret"
  /\ hcalls' = [hcalls EXCEPT ![h] = NoCall]
  /\ lastDone' = [orderId |-> c.orderId, crashed |-> FALSE,
                  retryable |-> c.err.retryable,
                  attemptsLeft |-> c.attemptsLeft,
                  scheduled |-> c.scheduled, refund |-> c.refund,
                  manual |-> c.manual]
  /\ IF h \in OrderIds
     THEN /\ orders' = [orders EXCEPT ![h].status = "failed"]
          /\ result' = [result EXCEPT ![h] = [k |-> "returned", msg |-> ""]]
          /\ pc' = [pc EXCEPT ![h] = "returned"]
     ELSE UNCHANGED <<orders, result, pc>>
  /\ UNCHANGED <<storeVars, local, caught, extCalls, resolverKey, quote,
                 query, authTokens,
                 retryVars>>

\* handleDeliveryError returns the DeliveryError.  When the caller is the
\* catch block of executeRemittance, that block goes on: it writes failed
\* into the order object and throws the user-facing message.
HandlerReturn(h) ==
  LET c == hcalls[h] IN
  /\ c.pc = "hret"
  /\ hcalls' = [hcalls EXCEPT ![h] = NoCall]
  /\ lastDone' = [orderId |-> c.orderId, crashed |-> FALSE,
                  retryable |-> c.err.retryable,
                  attemptsLeft |-> c.attemptsLeft,
                  scheduled |-> c.scheduled, refund |-> c.refund,
                  manual |-> c.manual]
  /\ IF h \in OrderIds
     THEN /\ orders' = [orders EXCEPT ![h].status = "failed"]
          /\ result' = [result EXCEPT ![h] =
                          [k |-> "threw", msg |-> getUserFriendlyMessage(c.err)]]
          /\ pc' = [pc EXCEPT ![h] = "threw"]
     ELSE UNCHANGED <<orders, result, pc>>
  /\ UNCHANGED <<storeVars, local, caught, extCalls, resolverKey, quote,
                 query, authTokens,
                 retryVars>>

\* The callback of a retry timer runs: it drops the order's queue entry,
\* stores attempts + 1 and emits delivery-retry.
TimerFire(t) ==
  LET timeout == timers[t] IN
  /\ timeout.active
  /\ fired[timeout.orderId] < MaxFired
  /\ timers' = [timers EXCEPT ![t] = NoTimer]
  /\ retryQueues' = [retryQueues EXCEPT ![timeout.orderId] = 0]
  /\ retryAttempts' = [retryAttempts EXCEPT ![timeout.orderId] =
                         timeout.attempts + 1]
  /\ fired' = [fired EXCEPT ![timeout.orderId] = @ + 1]
  /\ cancelState' = [cancelState EXCEPT ![timeout.orderId] =
                       IF @ = "cancelled" THEN "retried" ELSE @]
  /\ UNCHANGED <<orders, storeVars, callVars, hcalls, lastDone>>

\* cancelRetries(orderId)
cancelRetries(orderId) ==
  /\ timers' = clearTimeout(timers, retryQueues[orderId])
  /\ retryQueues' = [retryQueues EXCEPT ![orderId] = 0]
  /\ retryAttempts' = [retryAttempts EXCEPT ![orderId] = -1]
  /\ cancelState' = [cancelState EXCEPT ![orderId] = "cancelled"]
  /\ UNCHANGED <<orders, storeVars, callVars, hcalls, lastDone,
                 fired>>

\* getRetryStatus(orderId)
getRetryStatus(orderId) ==
  [isRetrying |-> retryQueues[orderId] # 0,
   attempts |-> attemptsOf(retryAttempts, orderId)]

\* The orders a direct caller reports errors for.
HandlerOrders == {1}

\* Errors given to handleDeliveryError by a direct caller.
HandlerErrors ==
  {NullError,
   PlainError({}),
   PlainError({"KYC"}),
   PlainError({"compliance"}),
   ErrorWithToString(Absent, Absent, StrMsg({"KYC"})),
   ErrorObj(StrMsg({}), RATE_EXPIRED_CODE, Absent),
   ErrorObj(StrMsg({}), ECONNREFUSED, Absent)}

\* A direct call handleDeliveryError(orderId, error).
HandleError(orderId, error) ==
  /\ \E h \in HIds \ OrderIds :
       /\ hcalls[h].pc = "idle"
       /\ \A g \in HIds \ OrderIds : hcalls[g].pc = "idle" => h <= g
       /\ handleDeliveryError(h, orderId, error)
  /\ cancelState' = [cancelState EXCEPT ![orderId] =
                       IF @ = "cancelled" THEN "since" ELSE @]
  /\ UNCHANGED <<storeVars, callVars, retryQueues, retryAttempts, timers, fired>>


\* ------------------------------------------------------ static tables
\* A chain name is the sequence of its characters, over the alphabet of
\* code points 0 to 255: an ASCII character is written as itself, another
\* one by its code point ("U+00C9" is the capital E with an acute accent).

\* String.prototype.toLowerCase: every upper-case letter (A to Z, U+00C0
\* to U+00DE but the multiplication sign U+00D7) is replaced by its
\* lower-case letter (lowerOf), every other character is kept.
lowerOf ==
  LET UpperCase ==
        <<"A", "B", "C", "D", "E", "F", "G", "H", "I", "J", "K", "L", "M",
          "N", "O", "P", "Q", "R", "S", "T", "U", "V", "W", "X", "Y", "Z",
          "U+00C0", "U+00C1", "U+00C2", "U+00C3", "U+00C4", "U+00C5",
          "U+00C6", "U+00C7", "U+00C8", "U+00C9", "U+00CA", "U+00CB",
          "U+00CC", "U+00CD", "U+00CE", "U+00CF", "U+00D0", "U+00D1",
          "U+00D2", "U+00D3", "U+00D4", "U+00D5", "U+00D6", "U+00D8",
          "U+00D9", "U+00DA", "U+00DB", "U+00DC", "U+00DD", "U+00DE">>
      LowerCase ==
        <<"a", "b", "c", "d", "e", "f", "g", "h", "i", "j", "k", "l", "m",
          "n", "o", "p", "q", "r", "s", "t", "u", "v", "w", "x", "y", "z",
          "U+00E0", "U+00E1", "U+00E2", "U+00E3", "U+00E4", "U+00E5",
          "U+00E6", "U+00E7", "U+00E8", "U+00E9", "U+00EA", "U+00EB",
          "U+00EC", "U+00ED", "U+00EE", "U+00EF", "U+00F0", "U+00F1",
          "U+00F2", "U+00F3", "U+00F4", "U+00F5", "U+00F6", "U+00F8",
          "U+00F9", "U+00FA", "U+00FB", "U+00FC", "U+00FD", "U+00FE">>
  IN [c \in {UpperCase[n] : n \in 1..Len(UpperCase)} |->
        LowerCase[CHOOSE n \in 1..Len(UpperCase) : UpperCase[n] = c]]

toLowerCase(s) ==
  [i \in 1..Len(s) |->
     IF s[i] \in DOMAIN lowerOf THEN lowerOf[s[i]] ELSE s[i]]

\* WRAPPED_STELLAR_USDC: the chains with a wrapped settlement asset.  The
\* address of each entry is a 0x address of 40 hex digits.
WRAPPED_STELLAR_USDC ==
  {<<"e", "t", "h", "e", "r", "e", "u", "m">>,
   <<"b", "s", "c">>,
   <<"p", "o", "l", "y", "g", "o", "n">>,
   <<"a", "r", "b", "i", "t", "r", "u", "m">>,
   <<"o", "p", "t", "i", "m", "i", "s", "m">>,
   <<"a", "v", "a", "l", "a", "n", "c", "h", "e">>}

\* The lower-case property names a plain object inherits from
\* Object.prototype, which a lookup by key also finds; the values found
\* there have no address.
ObjectPrototypeKeys ==
  {<<"c", "o", "n", "s", "t", "r", "u", "c", "t", "o", "r">>,
   <<"_", "_", "p", "r", "o", "t", "o", "_", "_">>}

\* null, or the token found, of which the model keeps whether its address
\* matches the address pattern.
NullToken == [isNull |-> TRUE, addressValid |-> FALSE]

\* getWrappedStellarUSDC(chain): the lookup of the lower-cased name in the
\* table, or null.
getWrappedStellarUSDC(chain) ==
  LET key == toLowerCase(chain) IN
  IF key \in WRAPPED_STELLAR_USDC
  THEN [isNull |-> FALSE, addressValid |-> TRUE]
  ELSE IF key \in ObjectPrototypeKeys
  THEN [isNull |-> FALSE, addressValid |-> FALSE]
  ELSE NullToken

\* StellarAnchorService.anchors: supportedCurrencies per anchor.
supportedCurrencies ==
  [a \in AnchorCodes |->
     CASE a = "VIBRANT_USD" -> {"USD", "ARS"}
       [] a = "CLICK_PHP" -> {"PHP", "USD"}
       [] a = "COWRIE_NGN" -> {"NGN", "USD"}
       [] a = "SETTLE_EUR" -> {"EUR", "USD"}]

corridorMap ==
  [k \in {"US-AR", "US-PH", "US-NG", "US-EU", "EU-NG", "EU-PH"} |->
     CASE k = "US-AR" -> "VIBRANT_USD"
       [] k = "US-PH" -> "CLICK_PHP"
       [] k = "US-NG" -> "COWRIE_NGN"
       [] k = "US-EU" -> "SETTLE_EUR"
       [] k = "EU-NG" -> "COWRIE_NGN"
       [] k = "EU-PH" -> "CLICK_PHP"]

corridorKey(fromCountry, toCountry) ==
  CASE fromCountry = "US" /\ toCountry = "AR" -> "US-AR"
    [] fromCountry = "US" /\ toCountry = "PH" -> "US-PH"
    [] fromCountry = "US" /\ toCountry = "NG" -> "US-NG"
    [] fromCountry = "US" /\ toCountry = "EU" -> "US-EU"
    [] fromCountry = "EU" /\ toCountry = "NG" -> "EU-NG"
    [] fromCountry = "EU" /\ toCountry = "PH" -> "EU-PH"
    [] OTHER -> "none"

\* getAnchorForCorridor: the corridor map first, then the first anchor (in
\* registration order) that supports the currency, else null ("none").
getAnchorForCorridor(fromCountry, toCountry, currency) ==
  LET key == corridorKey(fromCountry, toCountry)
      supporting == {i \in 1..Len(Anchors) :
                       currency \in supportedCurrencies[Anchors[i]]}
  IN IF key \in DOMAIN corridorMap THEN corridorMap[key]
     ELSE IF supporting # {}
       THEN Anchors[CHOOSE i \in supporting : \A j \in supporting : i <= j]
     ELSE "none"

\* DeliveryMethodHandler.deliveryMethods: <<countryCode, currency, type>>
deliveryMethods ==
  {<<"PH", "PHP", "gcash">>, <<"PH", "PHP", "paymaya">>,
   <<"PH", "PHP", "bank_transfer">>, <<"NG", "NGN", "mobile_money">>,
   <<"NG", "NGN", "bank_transfer">>, <<"AR", "ARS", "bank_transfer">>}

getAvailableDeliveryMethods(countryCode, currency) ==
  {m \in deliveryMethods : m[1] = countryCode /\ m[2] = currency}

recommendProtocol_alwaysSep6(sep6Info, sep24Info, authenticationRequired) == "sep6"

\* recommendProtocol, from the outcome of the two info probes (a failed
\* probe gives null) and the anchor's authentication_required flag.
recommendProtocol(sep6Info, sep24Info, authenticationRequired) ==
  IF sep6Info /\ ~sep24Info THEN "sep6"
  ELSE IF ~sep6Info /\ sep24Info THEN "sep24"
  ELSE IF sep24Info /\ authenticationRequired THEN "sep24"
  ELSE "sep6"

\* SEP6Service.withdraw and SEP24Service.initiateWithdraw wrap whatever the
\* HTTP client raised into a new Error whose message is a prefix followed
\* by error.response?.data?.error || error.message (a value that is not a
\* string is written out as text with no keyword); the new Error has no
\* code.  Reading null.response raises a TypeError in the catch block.
withdrawWrap(raised) ==
  IF raised.kind = "null" THEN PlainError({})
  ELSE LET text == IF Truthy(raised.rerror) THEN raised.rerror
                   ELSE raised.msg
       IN PlainError(IF text.t = "str" THEN text.kw ELSE {})

\* SEP6Service.withdraw's switch on params.type: the detail object the
\* type needs is missing from the parameters the caller built.
detailsMissing(anchor, type) ==
  /\ anchor \in {"CLICK_PHP", "COWRIE_NGN"}
  /\ type \in {"bank_account", "mobile_money", "gcash", "paymaya"}

\* The SEP6Service instance a synchronous withdrawal goes through.
instanceOf(anchor) ==
  IF anchor \in {"CLICK_PHP", "COWRIE_NGN"} THEN "integrations" ELSE "engine"

\* The classifier's keywords a text (a sequence of characters) contains.
keywordsIn(text) ==
  LET chars ==
        [k \in Keywords |->
           CASE k = "insufficient" ->
                  <<"i", "n", "s", "u", "f", "f", "i", "c", "i", "e", "n", "t">>
             [] k = "invalid recipient" ->
                  <<"i", "n", "v", "a", "l", "i", "d", " ",
                    "r", "e", "c", "i", "p", "i", "e", "n", "t">>
             [] k = "KYC" -> <<"K", "Y", "C">>
             [] k = "compliance" ->
                  <<"c", "o", "m", "p", "l", "i", "a", "n", "c", "e">>
             [] k = "blocked" -> <<"b", "l", "o", "c", "k", "e", "d">>
             [] k = "rate expired" ->
                  <<"r", "a", "t", "e", " ", "e", "x", "p", "i", "r", "e", "d">>
             [] k = "limit exceeded" ->
                  <<"l", "i", "m", "i", "t", " ",
                    "e", "x", "c", "e", "e", "d", "e", "d">>]
      at(w, n) == \A i \in 1..Len(w) : text[n + i - 1] = w[i]
  IN {k \in Keywords :
        \E n \in 1..(Len(text) - Len(chars[k]) + 1) : at(chars[k], n)}

\* ------------------------------------------------------------- inputs
Chains ==
  {<<"e", "t", "h", "e", "r", "e", "u", "m">>,
   <<"E", "t", "h", "e", "r", "e", "u", "m">>,
   <<"B", "S", "C">>,
   <<"c", "o", "n", "s", "t", "r", "u", "c", "t", "o", "r">>,
   <<"s", "o", "l", "a", "n", "a">>,
   <<"K", "Y", "C">>,
   <<"U+00C9", "t", "h", "e", "r", "e", "u", "m">>}
Corridors == {<<"PH", "PHP">>, <<"NG", "NGN">>, <<"AR", "ARS">>, <<"XX", "JPY">>}
Methods == {"bank_transfer", "gcash"}

\* Values the settlement network client may reject with inside
\* bridgeToStellar (loadAccount and fetchBaseFee are not wrapped).
BridgeErrors ==
  {NullError,
   PlainError({}),
   PlainError({"insufficient"}),
   PlainError({"KYC"}),
   ErrorObj(StrMsg({}), ECONNREFUSED, Absent),
   ErrorObj(StrMsg({"insufficient"}), ECONNREFUSED, Absent),
   ErrorObj(StrMsg({}), NonString, Absent)}

\* Values the HTTP client may reject with inside an anchor request.
AnchorErrors ==
  {PlainError({}),
   ErrorObj(StrMsg({}), ECONNREFUSED, Absent),
   ResponseError(StrMsg({}), StrMsg({"KYC"})),
   ResponseError(StrMsg({"KYC"}), StrMsg({}))}


\* ------------------------------------------- RemittanceEngine.executeRemittance
\* A stage threw `error`: the catch block calls handleDeliveryError, which
\* runs up to its first await (or rejects, and then so does the call).
\* `loc` is the calls' locals at the throw.
Catch(id, stage, error, loc) ==
  /\ handleDeliveryError(id, id, error)
  /\ caught' = [caught EXCEPT ![id] = error]
  /\ local' = [loc EXCEPT ![id].stage = stage]
  /\ IF classifyError(error).threw
     THEN /\ pc' = [pc EXCEPT ![id] = "threw"]
          /\ result' = [result EXCEPT ![id] =
                          [k |-> "threw", msg |-> TypeErrorMessage]]
     ELSE /\ pc' = [pc EXCEPT ![id] = "handling"]
          /\ UNCHANGED result
  /\ UNCHANGED extCalls

\* An external request is sent and the call waits for it.
Issue(id, request, loc) ==
  /\ extCalls' = [extCalls EXCEPT ![id] = Append(@, request)]
  /\ pc' = [pc EXCEPT ![id] = request]
  /\ local' = loc
  /\ UNCHANGED <<orders, hcalls, lastDone, caught, result>>

\* Create the order in status pending and save it (order ids are fresh).
Start(id, sender) ==
  /\ pc[id] = "idle"
  /\ \A j \in OrderIds : j < id => pc[j] # "idle"
  /\ orders' = [orders EXCEPT ![id] =
                  [NoOrder EXCEPT !.status = "pending", !.sender = sender]]
  /\ repoOrders' = repoOrders \cup {id}
  /\ ordersByUser' = [ordersByUser EXCEPT ![sender] = Append(@, id)]
  /\ pc' = [pc EXCEPT ![id] = "saved"]
  /\ UNCHANGED <<engineOrders, metricsOrders, local, caught, result, extCalls,
                 resolverKey, quote, query, authTokens, hcalls, lastDone, retryVars>>

Process_statusLater(id) ==
  /\ pc[id] = "saved"
  /\ engineOrders' = engineOrders \cup {id}
  /\ pc' = [pc EXCEPT ![id] = "processing"]
  /\ UNCHANGED <<orders, repoOrders, ordersByUser, metricsOrders, local, caught,
                 result, extCalls, resolverKey, quote, query, authTokens,
                 hcalls, lastDone, retryVars>>

\* After save: keep the order in the engine's map, set processing in the
\* object and through the repository.
Process(id) ==
  /\ pc[id] = "saved"
  /\ engineOrders' = engineOrders \cup {id}
  /\ orders' = updateStatus([orders EXCEPT ![id].status = "processing"],
                            repoOrders, id, "processing", NoData)
  /\ pc' = [pc EXCEPT ![id] = "processing"]
  /\ UNCHANGED <<repoOrders, ordersByUser, metricsOrders, local, caught,
                 result, extCalls, resolverKey, quote, query, authTokens,
                 hcalls, lastDone, retryVars>>

BuildSwap_bridgeFirst(id, fromChain) ==
  /\ pc[id] = "processing"
  /\ Issue(id, "bridge", local)
  /\ UNCHANGED <<storeVars, resolverKey, quote, query, authTokens, retryVars>>

\* Stage 1: look up the wrapped asset, then request the swap transaction.
\* With no wrapped asset it throws an Error whose message ends with the
\* chain name.
BuildSwap(id, fromChain) ==
  /\ pc[id] = "processing"
  /\ IF ~getWrappedStellarUSDC(fromChain).isNull
     THEN Issue(id, "swap", local)
     ELSE Catch(id, "swap", PlainError(keywordsIn(fromChain)), local)
  /\ UNCHANGED <<storeVars, resolverKey, quote, query, authTokens, retryVars>>

\* StellarBridge.setResolverKey(secretKey): Keypair.fromSecret throws on a
\* malformed secret, else the key is set.
SetResolverKey(secretValid) ==
  /\ resolverKey' = (resolverKey \/ secretValid)
  /\ UNCHANGED <<orders, storeVars, pc, local, caught, result, extCalls,
                 authTokens, quote, query, hcalls, lastDone, retryVars>>

\* buildSwapTx returned; stage 2: bridgeToStellar, which throws at once
\* when no resolver key is set.
SwapReturn(id) ==
  /\ pc[id] = "swap"
  /\ IF resolverKey
     THEN Issue(id, "bridge", local)
     ELSE Catch(id, "bridge", PlainError({}), local)
  /\ UNCHANGED <<storeVars, resolverKey, quote, query, authTokens, retryVars>>

\* buildSwapTx failed: it throws Error('Failed to build swap transaction').
SwapThrow(id) ==
  /\ pc[id] = "swap"
  /\ Catch(id, "swap", PlainError({}), local)
  /\ UNCHANGED <<storeVars, resolverKey, quote, query, authTokens, retryVars>>

\* bridgeToStellar returned: record the bridge transaction id and the
\* hash, which is result.hash of the settlement client's answer (hasHash:
\* the answer holds one).
BridgeReturn(id, hasHash) ==
  /\ pc[id] = "bridge"
  /\ orders' = [orders EXCEPT ![id].htlcId = TRUE,
                              ![id].stellarTxHash = hasHash]
  /\ pc' = [pc EXCEPT ![id] = "anchor"]
  /\ UNCHANGED <<storeVars, local, caught, result, extCalls, resolverKey,
                 quote, query,
                 authTokens, hcalls, lastDone, retryVars>>

\* bridgeToStellar failed with a value of the settlement client, or with
\* Error('Failed to bridge to Stellar').
BridgeThrow(id, error) ==
  /\ pc[id] = "bridge"
  /\ Catch(id, "bridge", error, local)
  /\ UNCHANGED <<storeVars, resolverKey, quote, query, authTokens, retryVars>>

\* Stage 3: resolve the payout anchor again; stage 4: probe the protocols.
ResolveAnchor(id, toCountry, toCurrency) ==
  LET anchor == getAnchorForCorridor("US", toCountry, toCurrency) IN
  /\ pc[id] = "anchor"
  /\ IF anchor = "none"
     THEN Catch(id, "anchor", PlainError({}), local)
     ELSE Issue(id, "probe", [local EXCEPT ![id].anchor = anchor,
                                           ![id].country = toCountry,
                                           ![id].currency = toCurrency])
  /\ UNCHANGED <<storeVars, resolverKey, quote, query, authTokens, retryVars>>

WithdrawBegin_noTokenCheck(id, tokens, loc) ==
  IF detailsMissing(loc[id].anchor, loc[id].method)
  THEN Catch(id, "withdraw", PlainError({}), loc)
  ELSE Issue(id, "withdraw", loc)

\* SEP6Service.withdraw up to its request: the token check ('Not
\* authenticated'), the detail check, then the POST.
WithdrawBegin(id, tokens, loc) ==
  LET anchor == loc[id].anchor IN
  IF anchor \notin tokens[instanceOf(anchor)]
       \/ detailsMissing(anchor, loc[id].method)
  THEN Catch(id, "withdraw", PlainError({}), loc)
  ELSE Issue(id, "withdraw", loc)

\* recommendProtocol returned; stage 5 starts.  The synchronous path checks
\* the delivery method, then authenticates (CLICK_PHP and the generic
\* path) or withdraws at once (COWRIE_NGN); the interactive path posts.
ProbeReturn(id, sep6Info, sep24Info, authenticationRequired, method) ==
  LET protocol == recommendProtocol(sep6Info, sep24Info, authenticationRequired)
      selected == {m \in getAvailableDeliveryMethods(local[id].country,
                                                     local[id].currency) :
                     m[3] = method}
      loc == [local EXCEPT ![id].protocol = protocol, ![id].method = method]
  IN
  /\ pc[id] = "probe"
  /\ IF protocol = "sep24" THEN Issue(id, "sep24", loc)
     ELSE IF selected = {} THEN Catch(id, "withdraw", PlainError({}), loc)
     ELSE IF local[id].anchor = "COWRIE_NGN"
       THEN WithdrawBegin(id, authTokens, loc)
     ELSE Issue(id, "auth", loc)
  /\ UNCHANGED <<storeVars, resolverKey, quote, query, authTokens, retryVars>>

\* authenticate: the challenge request (GET /auth) returned; the signed
\* challenge is submitted (POST /auth).
AuthChallengeReturn(id) ==
  /\ pc[id] = "auth"
  /\ Issue(id, "token", local)
  /\ UNCHANGED <<storeVars, resolverKey, quote, query, authTokens, retryVars>>

\* authenticate: the token request returned; the token of the response is
\* stored on the instance (an absent token is stored as undefined) and
\* authenticate returns to its caller.
AuthReturn(id, hasToken) ==
  LET anchor == local[id].anchor
      inst == instanceOf(anchor)
  IN
  /\ pc[id] = "token"
  /\ authTokens' = [authTokens EXCEPT ![inst] =
                      IF hasToken THEN @ \cup {anchor} ELSE @ \ {anchor}]
  /\ pc' = [pc EXCEPT ![id] = "authed"]
  /\ UNCHANGED <<orders, storeVars, local, caught, result, extCalls,
                 hcalls, lastDone, resolverKey, quote, query, retryVars>>

\* The caller of authenticate resumes and calls withdraw, which reads the
\* token the instance holds now.
WithdrawCall(id) ==
  /\ pc[id] = "authed"
  /\ WithdrawBegin(id, authTokens, local)
  /\ UNCHANGED <<storeVars, resolverKey, quote, query, authTokens, retryVars>>

\* One of the two requests of authenticate failed (or its response had no
\* body): authenticate throws Error('Authentication failed').
AuthThrow(id) ==
  /\ pc[id] \in {"auth", "token"}
  /\ Catch(id, "withdraw", PlainError({}), local)
  /\ UNCHANGED <<storeVars, resolverKey, quote, query, authTokens, retryVars>>

\* The withdrawal request returned response.data (null, an object with no
\* id, or an object with an id): record the payout id, set completed and
\* the completion time, in the object and through the repository.
WithdrawReturn(id, data) ==
  /\ pc[id] \in {"withdraw", "sep24"}
  /\ IF data = "null"
     THEN Catch(id, "withdraw", PlainError({}), local)
     ELSE /\ orders' = updateStatus(
                 [orders EXCEPT ![id].anchorTxId = (data = "id"),
                                ![id].status = "completed",
                                ![id].completedAt = TRUE],
                 repoOrders, id, "completed",
                 [anchorTxId |-> (data = "id"), completedAt |-> TRUE])
          /\ pc' = [pc EXCEPT ![id] = "completing"]
          /\ UNCHANGED <<local, caught, result, extCalls, hcalls, lastDone>>
  /\ UNCHANGED <<storeVars, resolverKey, quote, query, authTokens, retryVars>>

\* The withdrawal request failed: the client's error is wrapped.
WithdrawThrow(id, raised) ==
  /\ pc[id] \in {"withdraw", "sep24"}
  /\ Catch(id, "withdraw", withdrawWrap(raised),
           [local EXCEPT ![id].raised = raised])
  /\ UNCHANGED <<storeVars, resolverKey, quote, query, authTokens, retryVars>>

Complete_recordThrows(id) ==
  /\ pc[id] = "completing"
  /\ Catch(id, "metrics", PlainError({}), local)
  /\ UNCHANGED <<storeVars, resolverKey, quote, query, authTokens, retryVars>>

\* After the repository update: record metrics and return the order.
Complete(id) ==
  /\ pc[id] = "completing"
  /\ metricsOrders' = metricsOrders \cup {id}
  /\ result' = [result EXCEPT ![id] = [k |-> "returned", msg |-> ""]]
  /\ pc' = [pc EXCEPT ![id] = "returned"]
  /\ UNCHANGED <<orders, repoOrders, ordersByUser, engineOrders, local, caught,
                 extCalls, resolverKey, quote, query, authTokens, hcalls, lastDone,
                 retryVars>>

\* ------------------------------------------------ OneInchAggregator.getQuote
oneInchRetryCount == 3
oneInchRetryDelay == 1000

\* What the try block of one loop iteration can raise: the HTTP client's
\* rejection (status 0: no response; code: the client's error code), the
\* Error('Invalid token address') of the validation, or the TypeError of
\* reading a null response body.
ApiError(origin, status, code) ==
  [origin |-> origin, status |-> status, code |-> code]

InvalidTokenAddress == ApiError("validation", 0, "")
NullBodyTypeError == ApiError("body", 0, "")

QuoteFailures ==
  {ApiError("http", 400, ""), ApiError("http", 401, ""),
   ApiError("http", 403, ""), ApiError("http", 404, ""),
   ApiError("http", 429, ""), ApiError("http", 500, ""),
   ApiError("http", 0, "ECONNRESET"), ApiError("http", 0, "ECONNABORTED")}

\* error.response && error.response.status >= 400 && error.response.status < 500
isClientError(error) == error.status >= 400 /\ error.status < 500

handleApiError(error) ==
  IF error.status # 0
  THEN CASE error.status = 401 -> "Invalid 1inch API key"
         [] error.status = 429 -> "Rate limit exceeded"
         [] error.status = 400 -> "Bad request"
         [] error.status = 404 -> "Token pair not found"
         [] OTHER -> "1inch API error"
  ELSE IF error.code = "ECONNABORTED" THEN "Request timeout"
  ELSE "Network error"

\* The call rejects with Error(msg).
quoteThrow(q, msg) == [q EXCEPT !.pc = "threw", !.k = "threw", !.msg = msg]

\* The catch block of the loop: a client error is mapped and thrown; any
\* other value is waited on and retried while attempts remain, else the
\* loop ends and the last value is mapped and thrown.
quoteCatch(q, error) ==
  IF isClientError(error) THEN quoteThrow(q, handleApiError(error))
  ELSE IF q.attempt < oneInchRetryCount - 1
    THEN [q EXCEPT !.pc = "delay",
                   !.delays = Append(@, oneInchRetryDelay * Pow(2, q.attempt)),
                   !.retriedAfter = Append(@, error)]
  ELSE quoteThrow(q, handleApiError(error))

\* One loop iteration up to its await: validate the addresses (the target
\* token comes from the wrapped-asset table and is valid), send the request.
quoteAttempt(q) ==
  IF ~q.fromTokenValid \/ ~q.toTokenValid
  THEN quoteCatch(q, InvalidTokenAddress)
  ELSE [q EXCEPT !.pc = "request", !.requests = @ + 1]

\* OneInchAggregator.buildSwapTx up to its await: the request is sent with
\* the token addresses as given ("request": the call waits for the answer).
buildSwapTx(fromTokenValid, toTokenValid) == "request"

BuildSwapTx(fromTokenValid, toTokenValid) ==
  /\ query' = [NoQuery EXCEPT
                 !.fn = "buildSwapTx",
                 !.args = <<fromTokenValid, toTokenValid>>,
                 !.value = buildSwapTx(fromTokenValid, toTokenValid)]
  /\ UNCHANGED <<orders, storeVars, pc, local, caught, result, extCalls,
                 resolverKey, authTokens, quote, hcalls, lastDone, retryVars>>

\* --------------------------------------------------- RemittanceEngine.getQuote
\* StellarAnchorService.estimateDeliveryTime, in minutes.
deliveryTimes ==
  [a \in AnchorCodes |->
     CASE a = "VIBRANT_USD" -> [m \in {"bank_transfer", "mobile_wallet"} |->
                                  IF m = "bank_transfer" THEN 1440 ELSE 5]
       [] a = "CLICK_PHP" -> [m \in {"bank_transfer", "gcash", "paymaya"} |->
                                IF m = "bank_transfer" THEN 60 ELSE 1]
       [] a = "COWRIE_NGN" -> [m \in {"bank_transfer", "mobile_money"} |->
                                 IF m = "bank_transfer" THEN 120 ELSE 5]
       [] a = "SETTLE_EUR" -> [m \in {"sepa", "wire"} |->
                                 IF m = "sepa" THEN 1440 ELSE 2880]]

\* A JavaScript value: a number, a string, or an object (a function or
\* Object.prototype) with the text String() gives for it.
JsNumber(n) == [t |-> "number", n |-> n]
JsString(s) == [t |-> "string", s |-> s]
JsObject(s) == [t |-> "object", s |-> s]

\* What an object literal inherits from Object.prototype: every member is
\* a function, but __proto__, which reads as Object.prototype itself.
ObjectPrototype ==
  [k \in {"constructor", "__proto__", "hasOwnProperty", "isPrototypeOf",
          "propertyIsEnumerable", "toLocaleString", "toString", "valueOf",
          "__defineGetter__", "__defineSetter__", "__lookupGetter__",
          "__lookupSetter__"} |->
     IF k = "__proto__" THEN JsObject("[object Object]")
     ELSE JsObject("function "
                   \o (IF k = "constructor" THEN "Object" ELSE k)
                   \o "() { [native code] }")]

\* a + b: the sum of two numbers, else the two texts joined.
jsPlus(a, b) ==
  LET text(v) == IF v.t = "number" THEN ToString(v.n) ELSE v.s
  IN IF a.t = "number" /\ b.t = "number" THEN JsNumber(a.n + b.n)
     ELSE JsString(text(a) \o text(b))

\* deliveryTimes[anchorCode]?.[method] || 60: the member lookup finds the
\* table's own entries and the inherited members, all of them truthy.
estimateDeliveryTime(anchorCode, method) ==
  IF anchorCode \notin AnchorCodes THEN JsNumber(60)
  ELSE IF method \in DOMAIN deliveryTimes[anchorCode]
    THEN JsNumber(deliveryTimes[anchorCode][method])
  ELSE IF method \in DOMAIN ObjectPrototype THEN ObjectPrototype[method]
  ELSE JsNumber(60)

\* A route step.  Fees are fractions counted in units of 0.00001, so 0.003
\* is 300; a percentage in the same unit is the fraction times 100.  The
\* estimated time is a JavaScript value.
RouteStep(type, fees, estimatedTime) ==
  [type |-> type, fees |-> fees, estimatedTime |-> estimatedTime]

RECURSIVE reduceSum(_, _)
reduceSum(route, field) ==
  IF route = <<>> THEN 0
  ELSE route[1][field] + reduceSum(Tail(route), field)

\* route.reduce((sum, step) => sum + step.estimatedTime, sum)
RECURSIVE reduceTime(_, _)
reduceTime(route, sum) ==
  IF route = <<>> THEN sum
  ELSE reduceTime(Tail(route), jsPlus(sum, route[1].estimatedTime))

buildRoute(anchorCode, deliveryMethod) ==
  <<RouteStep("swap", 300, JsNumber(1)),
    RouteStep("bridge", 100, JsNumber(2)),
    RouteStep("anchor", 500,
              estimateDeliveryTime(anchorCode,
                IF deliveryMethod = "" THEN "bank_transfer" ELSE deliveryMethod))>>

\* getQuote once getAnchorForCorridor has answered, up to its first
\* external request: look up the wrapped asset, enter the aggregator's loop.
getQuoteBegin(q0) ==
  LET anchor == getAnchorForCorridor("US", q0.toCountry, q0.toCurrency)
      wrappedStellarUSDC == getWrappedStellarUSDC(q0.fromChain)
      q == [q0 EXCEPT !.toTokenValid =
                         anchor # "none" /\ wrappedStellarUSDC.addressValid,
                      !.anchor = anchor]
  IN IF anchor = "none"
       THEN quoteThrow(q, "No anchor available")
     ELSE IF wrappedStellarUSDC.isNull
       THEN quoteThrow(q, "Wrapped Stellar USDC not available")
     ELSE quoteAttempt(q)

GetQuote_recordsOrder(fromChain, fromTokenValid, toCountry, toCurrency, deliveryMethod) ==
  /\ quote.pc \in {"idle", "returned", "threw"}
  /\ quote' = [NoQuote EXCEPT !.pc = "anchor",
                              !.fromChain = fromChain,
                              !.fromTokenValid = fromTokenValid,
                              !.toCountry = toCountry,
                              !.toCurrency = toCurrency,
                              !.deliveryMethod = deliveryMethod]
  /\ metricsOrders' = metricsOrders \cup {1}
  /\ UNCHANGED <<orders, repoOrders, ordersByUser, engineOrders, pc, local,
                 caught, result, extCalls, resolverKey, authTokens, query,
                 hcalls, lastDone, retryVars>>

\* A getQuote call: it asks for the corridor's anchor and waits for the
\* answer (getAnchorForCorridor is asynchronous); nothing is sent yet.
GetQuote(fromChain, fromTokenValid, toCountry, toCurrency, deliveryMethod) ==
  /\ quote.pc \in {"idle", "returned", "threw"}
  /\ quote' = [NoQuote EXCEPT !.pc = "anchor",
                              !.fromChain = fromChain,
                              !.fromTokenValid = fromTokenValid,
                              !.toCountry = toCountry,
                              !.toCurrency = toCurrency,
                              !.deliveryMethod = deliveryMethod]
  /\ UNCHANGED <<orders, storeVars, pc, local, caught, result, extCalls,
                 resolverKey, authTokens, query, hcalls, lastDone, retryVars>>

\* getAnchorForCorridor answered: the call goes on to its first request.
QuoteAnchorReturn ==
  /\ quote.pc = "anchor"
  /\ quote' = getQuoteBegin(quote)
  /\ UNCHANGED <<orders, storeVars, pc, local, caught, result, extCalls,
                 resolverKey, authTokens, query, hcalls, lastDone, retryVars>>

quoteReturn_fixedTime(q) ==
  LET route == buildRoute(q.anchor, q.deliveryMethod)
      totalFees == reduceSum(route, "fees")
  IN [q EXCEPT !.pc = "returned", !.k = "returned", !.route = route,
               !.totalFees = totalFees * 100, !.estimatedTime = JsNumber(63)]

\* The end of getQuote: the route (estimateDeliveryTime has answered), the
\* totals, the quote returned.
quoteReturn(q) ==
  LET route == buildRoute(q.anchor, q.deliveryMethod)
      totalFees == reduceSum(route, "fees")
      totalTime == reduceTime(route, JsNumber(0))
  IN [q EXCEPT !.pc = "returned", !.k = "returned", !.route = route,
               !.totalFees = totalFees * 100, !.estimatedTime = totalTime]

\* The aggregator answered with a body: null (reading it raises a
\* TypeError inside the loop), an object with a numeric amount, with no
\* amount (read as '0'), or with an amount formatUnits rejects.  With a
\* body that is an object the engine asks for the exchange rate and waits
\* for it (getExchangeRate is asynchronous).
QuoteResponse(data) ==
  /\ quote.pc = "request"
  /\ quote' = IF data = "null" THEN quoteCatch(quote, NullBodyTypeError)
              ELSE [quote EXCEPT !.pc = "rate", !.data = data]
  /\ UNCHANGED <<orders, storeVars, pc, local, caught, result, extCalls,
                 resolverKey, authTokens, query, hcalls, lastDone, retryVars>>

\* getExchangeRate answered: the amount is converted (formatUnits throws
\* on an amount it cannot read), then the route is built up to its await
\* of estimateDeliveryTime.
QuoteRateReturn ==
  /\ quote.pc = "rate"
  /\ quote' = IF quote.data = "badamount"
              THEN quoteThrow(quote, "invalid BigNumberish")
              ELSE [quote EXCEPT !.pc = "estimate"]
  /\ UNCHANGED <<orders, storeVars, pc, local, caught, result, extCalls,
                 resolverKey, authTokens, query, hcalls, lastDone, retryVars>>

\* estimateDeliveryTime answered: the quote is returned.
QuoteEstimateReturn ==
  /\ quote.pc = "estimate"
  /\ quote' = quoteReturn(quote)
  /\ UNCHANGED <<orders, storeVars, pc, local, caught, result, extCalls,
                 resolverKey, authTokens, query, hcalls, lastDone, retryVars>>

\* The request was rejected by the HTTP client.
QuoteReject(error) ==
  /\ quote.pc = "request"
  /\ quote' = quoteCatch(quote, error)
  /\ UNCHANGED <<orders, storeVars, pc, local, caught, result, extCalls,
                 resolverKey, authTokens, query, hcalls, lastDone, retryVars>>

\* The backoff wait is over: next loop iteration.
QuoteDelayElapsed ==
  /\ quote.pc = "delay"
  /\ quote' = quoteAttempt([quote EXCEPT !.attempt = @ + 1])
  /\ UNCHANGED <<orders, storeVars, pc, local, caught, result, extCalls,
                 resolverKey, authTokens, query, hcalls, lastDone, retryVars>>


\* ------------------------------------- DeliveryMethodHandler.getDeliveryStatus
\* What getWithdrawStatus gives: the anchor's transaction status, or a
\* rejection ("throws").
AnchorStatuses ==
  {"incomplete", "pending_user_transfer_start", "pending_anchor",
   "pending_stellar", "pending_external", "pending_trust", "pending_user",
   "completed", "error", "expired", "refunded", "constructor", "__proto__"}

statusMap ==
  [s \in {"incomplete", "pending_user_transfer_start", "pending_anchor",
          "pending_stellar", "pending_external", "completed", "error",
          "expired"} |->
     CASE s \in {"incomplete", "pending_user_transfer_start"} -> "pending"
       [] s \in {"pending_anchor", "pending_stellar", "pending_external"}
            -> "processing"
       [] s = "completed" -> "completed"
       [] OTHER -> "failed"]

\* statusMap[result.transaction.status] || 'pending': the member lookup
\* finds the map's own entries and the inherited members, all of them
\* truthy; a rejection is caught and gives 'pending'.  The status returned
\* is a JavaScript value.
getDeliveryStatus(outcome) ==
  IF outcome = "throws" THEN JsString("pending")
  ELSE IF outcome \in DOMAIN statusMap THEN JsString(statusMap[outcome])
  ELSE IF outcome \in DOMAIN ObjectPrototype THEN ObjectPrototype[outcome]
  ELSE JsString("pending")

GetDeliveryStatus(outcome) ==
  /\ query' = [NoQuery EXCEPT !.fn = "getDeliveryStatus",
                              !.args = <<outcome>>,
                              !.value = getDeliveryStatus(outcome)]
  /\ UNCHANGED <<orders, storeVars, pc, local, caught, result, extCalls,
                 resolverKey, authTokens, quote, hcalls, lastDone, retryVars>>

\* A call of StellarAnchorService.getAnchorForCorridor.
GetAnchorForCorridor(fromCountry, toCountry, currency) ==
  /\ query' = [NoQuery EXCEPT
                 !.fn = "getAnchorForCorridor",
                 !.args = <<fromCountry, toCountry, currency>>,
                 !.value = getAnchorForCorridor(fromCountry, toCountry, currency)]
  /\ UNCHANGED <<orders, storeVars, pc, local, caught, result, extCalls,
                 resolverKey, authTokens, quote, hcalls, lastDone, retryVars>>

\* ------------------------------------------------------------ OrderRepository
\* save(order): store the object under its id (replacing what was there)
\* and append the id to the list of the order's sender.
save(id, sender) ==
  /\ Len(ordersByUser["0xA"]) + Len(ordersByUser["0xB"]) < MaxSaved
  /\ orders' = [orders EXCEPT ![id] =
                  [NoOrder EXCEPT !.status = "pending", !.sender = sender]]
  /\ repoOrders' = repoOrders \cup {id}
  /\ ordersByUser' = [ordersByUser EXCEPT ![sender] = Append(@, id)]
  /\ UNCHANGED <<engineOrders, metricsOrders, callVars, hcalls, lastDone,
                 retryVars>>

\* A call of updateStatus, for any id, with or without additional data.
UpdateStatus(orderId, status, additionalData) ==
  /\ orders' = updateStatus(orders, repoOrders, orderId, status,
                            additionalData)
  /\ UNCHANGED <<storeVars, callVars, hcalls, lastDone, retryVars>>

\* findByUser: the ids listed under the user, mapped to the stored orders,
\* the missing ones dropped.
findByUser(index, repo, userAddress) ==
  SelectSeq(index[userAddress], LAMBDA id : id \in repo)

FindByUser(userAddress) ==
  /\ query' = [NoQuery EXCEPT
                 !.fn = "findByUser",
                 !.args = <<userAddress>>,
                 !.list = findByUser(ordersByUser, repoOrders, userAddress)]
  /\ UNCHANGED <<orders, storeVars, pc, local, caught, result, extCalls,
                 resolverKey, authTokens, quote, hcalls, lastDone, retryVars>>

\* A call of SEP24Service.recommendProtocol with the outcomes of its probes.
RecommendProtocol(sep6Info, sep24Info, authenticationRequired) ==
  /\ query' = [NoQuery EXCEPT
                 !.fn = "recommendProtocol",
                 !.args = <<sep6Info, sep24Info, authenticationRequired>>,
                 !.value = recommendProtocol(sep6Info, sep24Info,
                                             authenticationRequired)]
  /\ UNCHANGED <<orders, storeVars, pc, local, caught, result, extCalls,
                 resolverKey, authTokens, quote, hcalls, lastDone, retryVars>>

\* ------------------------------------------------------ specifications
Init ==
  /\ orders = [i \in OrderIds |-> NoOrder]
  /\ repoOrders = {}
  /\ ordersByUser = [u \in Senders |-> <<>>]
  /\ engineOrders = {}
  /\ metricsOrders = {}
  /\ resolverKey = FALSE
  /\ authTokens = [integrations |-> {}, engine |-> {}]
  /\ pc = [i \in OrderIds |-> "idle"]
  /\ local = [i \in OrderIds |-> NoLocal]
  /\ caught = [i \in OrderIds |-> NullError]
  /\ result = [i \in OrderIds |-> NoResult]
  /\ extCalls = [i \in OrderIds |-> <<>>]
  /\ hcalls = [h \in HIds |-> NoCall]
  /\ lastDone = NoneDone
  /\ retryQueues = [i \in OrderIds |-> 0]
  /\ retryAttempts = [i \in OrderIds |-> -1]
  /\ timers = [t \in TimerIds |-> NoTimer]
  /\ fired = [i \in OrderIds |-> 0]
  /\ cancelState = [i \in OrderIds |-> "never"]
  /\ quote = NoQuote
  /\ query = NoQuery

\* The engine: executeRemittance calls, their error handling, the timers.
\* A pipeline reports one error for its order, at attempt count 0, so the
\* manual-review path of the handler is never entered from here.
Next ==
  \/ \E id \in OrderIds, sender \in Senders : Start(id, sender)
  \/ \E id \in OrderIds : Process(id)
  \/ \E id \in OrderIds, fromChain \in Chains : BuildSwap(id, fromChain)
  \/ \E id \in OrderIds : SwapReturn(id)
  \/ \E id \in OrderIds : SwapThrow(id)
  \/ \E id \in OrderIds, hasHash \in BOOLEAN : BridgeReturn(id, hasHash)
  \/ \E id \in OrderIds, error \in BridgeErrors : BridgeThrow(id, error)
  \/ \E id \in OrderIds, c \in Corridors : ResolveAnchor(id, c[1], c[2])
  \/ \E id \in OrderIds, s6 \in BOOLEAN, s24 \in BOOLEAN, ar \in BOOLEAN,
        method \in Methods : ProbeReturn(id, s6, s24, ar, method)
  \/ \E id \in OrderIds : AuthChallengeReturn(id)
  \/ \E id \in OrderIds, hasToken \in BOOLEAN : AuthReturn(id, hasToken)
  \/ \E id \in OrderIds : WithdrawCall(id)
  \/ \E secretValid \in BOOLEAN : SetResolverKey(secretValid)
  \/ \E id \in OrderIds : AuthThrow(id)
  \/ \E id \in OrderIds, data \in {"null", "noid", "id"} : WithdrawReturn(id, data)
  \/ \E id \in OrderIds, raised \in AnchorErrors : WithdrawThrow(id, raised)
  \/ \E id \in OrderIds : Complete(id)
  \/ \E h \in HIds : AfterStatusUpdate(h)
  \/ \E h \in HIds : EmitRefundRequired(h)
  \/ \E h \in HIds : HandlerReturn(h)
  \/ \E t \in TimerIds : TimerFire(t)

Spec == Init /\ [][Next]_vars

\* The handler alone, driven by a delivery service: the orders are stored
\* and in processing, errors are reported for them in any order, timers
\* fire, retries are cancelled.
InitHandler ==
  /\ orders = [i \in OrderIds |->
                 IF i \in HandlerOrders
                 THEN [NoOrder EXCEPT !.status = "processing", !.sender = "0xA"]
                 ELSE NoOrder]
  /\ repoOrders = HandlerOrders
  /\ ordersByUser = [u \in Senders |-> <<>>]
  /\ engineOrders = {}
  /\ metricsOrders = {}
  /\ resolverKey = FALSE
  /\ authTokens = [integrations |-> {}, engine |-> {}]
  /\ pc = [i \in OrderIds |-> "idle"]
  /\ local = [i \in OrderIds |-> NoLocal]
  /\ caught = [i \in OrderIds |-> NullError]
  /\ result = [i \in OrderIds |-> NoResult]
  /\ extCalls = [i \in OrderIds |-> <<>>]
  /\ hcalls = [h \in HIds |-> NoCall]
  /\ lastDone = NoneDone
  /\ retryQueues = [i \in OrderIds |-> 0]
  /\ retryAttempts = [i \in OrderIds |-> -1]
  /\ timers = [t \in TimerIds |-> NoTimer]
  /\ fired = [i \in OrderIds |-> 0]
  /\ cancelState = [i \in OrderIds |-> "never"]
  /\ quote = NoQuote
  /\ query = NoQuery

NextHandler ==
  \/ \E id \in HandlerOrders, error \in HandlerErrors : HandleError(id, error)
  \/ \E h \in HIds : AfterStatusUpdate(h)
  \/ \E h \in HIds : EmitManualReview(h)
  \/ \E h \in HIds : EmitRefundRequired(h)
  \/ \E h \in HIds : HandlerReturn(h)
  \/ \E t \in TimerIds : TimerFire(t)
  \/ \E id \in HandlerOrders : cancelRetries(id)

SpecHandler == InitHandler /\ [][NextHandler]_vars

\* The handler under the default policy only: errors of kinds that use no
\* policy (not retryable) or the default one, and no cancelRetries.
DefaultPolicyErrors ==
  {PlainError({}),
   PlainError({"KYC"}),
   ErrorObj(StrMsg({}), ECONNREFUSED, Absent)}

NextDefaultPolicy ==
  \/ \E id \in HandlerOrders, error \in DefaultPolicyErrors : HandleError(id, error)
  \/ \E h \in HIds : AfterStatusUpdate(h)
  \/ \E h \in HIds : EmitManualReview(h)
  \/ \E h \in HIds : EmitRefundRequired(h)
  \/ \E h \in HIds : HandlerReturn(h)
  \/ \E t \in TimerIds : TimerFire(t)

SpecDefaultPolicy == InitHandler /\ [][NextDefaultPolicy]_vars

\* classifyError alone: it is private, so it is applied through the first
\* step of one handleDeliveryError call, to any thrown value.  The value is
\* kept in caught[1].
InitClassify ==
  /\ orders = [i \in OrderIds |->
                 IF i \in HandlerOrders
                 THEN [NoOrder EXCEPT !.status = "processing", !.sender = "0xA"]
                 ELSE NoOrder]
  /\ repoOrders = HandlerOrders
  /\ ordersByUser = [u \in Senders |-> <<>>]
  /\ engineOrders = {}
  /\ metricsOrders = {}
  /\ resolverKey = FALSE
  /\ authTokens = [integrations |-> {}, engine |-> {}]
  /\ pc = [i \in OrderIds |-> "idle"]
  /\ local = [i \in OrderIds |-> NoLocal]
  /\ \E error \in AllErrors :
       caught = [i \in OrderIds |-> IF i = 1 THEN error ELSE NullError]
  /\ result = [i \in OrderIds |-> NoResult]
  /\ extCalls = [i \in OrderIds |-> <<>>]
  /\ hcalls = [h \in HIds |-> NoCall]
  /\ lastDone = NoneDone
  /\ retryQueues = [i \in OrderIds |-> 0]
  /\ retryAttempts = [i \in OrderIds |-> -1]
  /\ timers = [t \in TimerIds |-> NoTimer]
  /\ fired = [i \in OrderIds |-> 0]
  /\ cancelState = [i \in OrderIds |-> "never"]
  /\ quote = NoQuote
  /\ query = NoQuery

Classify ==
  /\ \A h \in HIds : hcalls[h].pc = "idle"
  /\ lastDone = NoneDone
  /\ HandleError(1, caught[1])

SpecClassify == InitClassify /\ [][Classify]_vars


\* getQuote calls, one after another, while orders are being submitted
\* (saved, then moved to processing) by executeRemittance calls.
QuoteMethods == {"", "gcash", "constructor"}
QuoteBodies == {"null", "amount", "noamount", "badamount"}
QuoteChains ==
  {<<"E", "t", "h", "e", "r", "e", "u", "m">>,
   <<"c", "o", "n", "s", "t", "r", "u", "c", "t", "o", "r">>,
   <<"s", "o", "l", "a", "n", "a">>}

NextQuote ==
  \/ \E fromChain \in QuoteChains, fromTokenValid \in BOOLEAN, c \in Corridors,
        deliveryMethod \in QuoteMethods :
       GetQuote(fromChain, fromTokenValid, c[1], c[2], deliveryMethod)
  \/ QuoteAnchorReturn
  \/ \E data \in QuoteBodies : QuoteResponse(data)
  \/ QuoteRateReturn
  \/ QuoteEstimateReturn
  \/ \E error \in QuoteFailures : QuoteReject(error)
  \/ QuoteDelayElapsed
  \/ \E fromTokenValid \in BOOLEAN, toTokenValid \in BOOLEAN :
       BuildSwapTx(fromTokenValid, toTokenValid)
  \/ \E id \in OrderIds, sender \in Senders : Start(id, sender)
  \/ \E id \in OrderIds : Process(id)

InitQuote == Init /\ ~resolverKey

SpecQuote == InitQuote /\ [][NextQuote]_vars


\* The read-only lookups, called one after another with any arguments.
FromCountries == {"US", "EU", "XX"}
ToCountries == {"PH", "NG", "AR", "EU", "XX"}
Currencies == {"PHP", "NGN", "ARS", "EUR", "USD", "JPY"}

NextQuery ==
  \/ \E outcome \in AnchorStatuses \cup {"throws"} : GetDeliveryStatus(outcome)
  \/ \E fromCountry \in FromCountries, toCountry \in ToCountries,
        currency \in Currencies :
       GetAnchorForCorridor(fromCountry, toCountry, currency)
  \/ \E s6 \in BOOLEAN, s24 \in BOOLEAN, ar \in BOOLEAN :
       RecommendProtocol(s6, s24, ar)

SpecQuery == InitQuote /\ [][NextQuery]_vars


\* The order repository alone, called in any order by its clients.
StoreSenders == {"0xA", "0xB"}

InitStore ==
  /\ orders = [i \in OrderIds |-> NoOrder]
  /\ repoOrders = {}
  /\ ordersByUser = [u \in StoreSenders |-> <<>>]
  /\ engineOrders = {}
  /\ metricsOrders = {}
  /\ resolverKey = FALSE
  /\ authTokens = [integrations |-> {}, engine |-> {}]
  /\ pc = [i \in OrderIds |-> "idle"]
  /\ local = [i \in OrderIds |-> NoLocal]
  /\ caught = [i \in OrderIds |-> NullError]
  /\ result = [i \in OrderIds |-> NoResult]
  /\ extCalls = [i \in OrderIds |-> <<>>]
  /\ hcalls = [h \in HIds |-> NoCall]
  /\ lastDone = NoneDone
  /\ retryQueues = [i \in OrderIds |-> 0]
  /\ retryAttempts = [i \in OrderIds |-> -1]
  /\ timers = [t \in TimerIds |-> NoTimer]
  /\ fired = [i \in OrderIds |-> 0]
  /\ cancelState = [i \in OrderIds |-> "never"]
  /\ quote = NoQuote
  /\ query = NoQuery

\* The additional data the repository's clients pass to updateStatus.
StoreData ==
  <<NoData, [anchorTxId |-> TRUE, completedAt |-> TRUE],
    [status |-> "failed"]>>

NextStore ==
  \/ \E id \in OrderIds, sender \in StoreSenders : save(id, sender)
  \/ \E id \in OrderIds, status \in {"processing", "completed"},
        n \in 1..Len(StoreData) :
       UpdateStatus(id, status, StoreData[n])
  \/ \E userAddress \in StoreSenders : FindByUser(userAddress)

SpecStore == InitStore /\ [][NextStore]_vars


\* ------------------------- RemittanceEngine (StellarBridge.ts), basic variant
\* The catch block of the basic executeRemittance: mark the order failed
\* and rethrow.
basicFail(id) ==
  /\ orders' = [orders EXCEPT ![id].status = "failed"]
  /\ pc' = [pc EXCEPT ![id] = "threw"]
  /\ result' = [result EXCEPT ![id] = [k |-> "threw", msg |-> ""]]
  /\ UNCHANGED <<local, extCalls>>

\* executeRemittance up to its first await: the order is created pending,
\* kept in the engine's map, set processing, and buildSwapTx is called.
BasicStart(id, sender, toCountry, toCurrency) ==
  /\ pc[id] = "idle"
  /\ \A j \in OrderIds : j < id => pc[j] # "idle"
  /\ orders' = [orders EXCEPT ![id] =
                  [NoOrder EXCEPT !.status = "processing", !.sender = sender]]
  /\ engineOrders' = engineOrders \cup {id}
  /\ local' = [local EXCEPT ![id].country = toCountry,
                            ![id].currency = toCurrency]
  /\ extCalls' = [extCalls EXCEPT ![id] = Append(@, "swap")]
  /\ pc' = [pc EXCEPT ![id] = "swap"]
  /\ UNCHANGED <<repoOrders, ordersByUser, metricsOrders, caught, result,
                 resolverKey, quote, query, authTokens, hcalls, lastDone,
                 retryVars>>

\* buildSwapTx returned; bridgeToStellar throws at once when no resolver
\* key is set, else it sends its requests.
BasicSwapReturn(id) ==
  /\ pc[id] = "swap"
  /\ IF resolverKey
     THEN Issue(id, "bridge", local)
     ELSE basicFail(id) /\ UNCHANGED <<hcalls, lastDone, caught>>
  /\ UNCHANGED <<storeVars, resolverKey, quote, query, authTokens, retryVars>>

\* buildSwapTx or bridgeToStellar rejected.
BasicThrow(id) ==
  /\ pc[id] \in {"swap", "bridge"}
  /\ basicFail(id)
  /\ UNCHANGED <<storeVars, hcalls, lastDone, caught, resolverKey, quote,
                 query, authTokens, retryVars>>

\* bridgeToStellar returned: record the bridge id and the hash (result.hash
\* of the settlement client's answer; hasHash: the answer holds one) and
\* look the anchor up (getAnchorForCorridor is awaited).
BasicBridgeReturn(id, hasHash) ==
  /\ pc[id] = "bridge"
  /\ orders' = [orders EXCEPT ![id].htlcId = TRUE,
                              ![id].stellarTxHash = hasHash]
  /\ pc' = [pc EXCEPT ![id] = "anchor"]
  /\ UNCHANGED <<storeVars, local, caught, result, extCalls, resolverKey,
                 quote, query, authTokens, hcalls, lastDone, retryVars>>

\* The end of the try block: set completed with the completion time and
\* return the order.
basicComplete(id, ords) ==
  /\ orders' = [ords EXCEPT ![id].status = "completed",
                            ![id].completedAt = TRUE]
  /\ result' = [result EXCEPT ![id] = [k |-> "returned", msg |-> ""]]
  /\ pc' = [pc EXCEPT ![id] = "returned"]

\* getAnchorForCorridor returned: with an anchor, createWithdrawRequest is
\* called and awaited; with none, the order is completed at once.
BasicAnchorReturn(id) ==
  LET anchor == getAnchorForCorridor("US", local[id].country,
                                     local[id].currency) IN
  /\ pc[id] = "anchor"
  /\ local' = [local EXCEPT ![id].anchor = anchor]
  /\ IF anchor # "none"
     THEN /\ pc' = [pc EXCEPT ![id] = "withdraw"]
          /\ UNCHANGED <<orders, result>>
     ELSE basicComplete(id, orders)
  /\ UNCHANGED <<storeVars, caught, extCalls, resolverKey, quote, query,
                 authTokens, hcalls, lastDone, retryVars>>

\* createWithdrawRequest returned its id: record it, complete, return.
BasicWithdrawReturn(id) ==
  /\ pc[id] = "withdraw"
  /\ basicComplete(id, [orders EXCEPT ![id].anchorTxId = TRUE])
  /\ UNCHANGED <<storeVars, local, caught, extCalls, resolverKey, quote,
                 query, authTokens, hcalls, lastDone, retryVars>>

NextBasic ==
  \/ \E id \in OrderIds, sender \in {"0xA"}, c \in Corridors :
       BasicStart(id, sender, c[1], c[2])
  \/ \E id \in OrderIds : BasicSwapReturn(id)
  \/ \E id \in OrderIds : BasicThrow(id)
  \/ \E id \in OrderIds, hasHash \in BOOLEAN : BasicBridgeReturn(id, hasHash)
  \/ \E id \in OrderIds : BasicAnchorReturn(id)
  \/ \E id \in OrderIds : BasicWithdrawReturn(id)
  \/ \E secretValid \in BOOLEAN : SetResolverKey(secretValid)

SpecBasic == Init /\ [][NextBasic]_vars


\* ================================================================ claims

\* An order has a retry timer pending.
HasTimer(orderId) ==
  \E t \in TimerIds : timers[t].active /\ timers[t].orderId = orderId

\* ------------------------------------------------------------------- C1
\* C1: when an executeRemittance call that has created its order returns
\* or throws, the stored order's status is completed or failed, whichever
\* stage failed and whatever value it threw.
C1_TerminalOnExit ==
  \A id \in OrderIds :
    pc[id] \in {"returned", "threw"} =>
      id \in repoOrders /\ orders[id].status \in {"completed", "failed"}

\* ------------------------------------------------------------------- C2
C2_Forward ==
  {<<"none", "pending">>, <<"pending", "processing">>,
   <<"processing", "completed">>, <<"processing", "failed">>}

\* C2: an order's status only moves forward along pending -> processing ->
\* completed or failed: every step that changes a status is one of these
\* moves, so a completed or failed order keeps its status and a processing
\* order never goes back to pending.
C2_StatusForward ==
  [][\A id \in OrderIds :
       orders'[id].status # orders[id].status =>
         <<orders[id].status, orders'[id].status>> \in C2_Forward]_vars

\* One order went all the way to completed and its call returned, another
\* failed, was handled, and its call threw.
C2_Witness ==
  \E i, j \in OrderIds :
    /\ pc[i] = "returned" /\ orders[i].status = "completed"
    /\ pc[j] = "threw" /\ orders[j].status = "failed"
    /\ lastDone.orderId = j

\* ------------------------------------------------------------------- C3
\* C3: the error executeRemittance throws carries exactly the fixed message
\* of the kind the caught value classifies to, one of the ten strings.
C3_FixedMessage ==
  \A id \in OrderIds :
    result[id].k = "threw" =>
      \E t \in DeliveryErrorType :
        /\ classifyError(caught[id]).type = t
        /\ result[id].msg = UserMessages[t]

\* ------------------------------------------------------------------- C4
\* C4: a handleDeliveryError call that has ended had exactly one outcome:
\* a retry timer scheduled (retryable, attempts remain), or refund-required
\* emitted and nothing scheduled (not retryable), or manual-review-required
\* emitted and nothing scheduled (retryable, attempts exhausted).
C4_ExactlyOneOutcome ==
  lastDone.orderId # 0 =>
    \/ /\ lastDone.scheduled /\ ~lastDone.refund /\ ~lastDone.manual
       /\ lastDone.retryable /\ lastDone.attemptsLeft
    \/ /\ lastDone.refund /\ ~lastDone.scheduled /\ ~lastDone.manual
       /\ ~lastDone.retryable
    \/ /\ lastDone.manual /\ ~lastDone.scheduled /\ ~lastDone.refund
       /\ lastDone.retryable /\ ~lastDone.attemptsLeft

\* ------------------------------------------------------------------- C5
\* The rule table of the classifier: the keywords a rule looks for in the
\* message text, the codes it accepts, whether it reads the error's own
\* code only (own) or falls back to the code of the anchor's response, and
\* the kind it gives.
C5_Rules ==
  <<[kw |-> {"insufficient"}, codes |-> {INSUFFICIENT_BALANCE}, own |-> FALSE,
     kind |-> "INSUFFICIENT_FUNDS"],
    [kw |-> {"invalid recipient"}, codes |-> {INVALID_DEST}, own |-> FALSE,
     kind |-> "INVALID_RECIPIENT"],
    [kw |-> {"KYC"}, codes |-> {NEEDS_INFO}, own |-> FALSE,
     kind |-> "KYC_REQUIRED"],
    [kw |-> {"compliance", "blocked"}, codes |-> {}, own |-> FALSE,
     kind |-> "COMPLIANCE_BLOCKED"],
    [kw |-> {}, codes |-> {ECONNREFUSED, ENOTFOUND}, own |-> TRUE,
     kind |-> "ANCHOR_UNAVAILABLE"],
    [kw |-> {"rate expired"}, codes |-> {RATE_EXPIRED_CODE}, own |-> FALSE,
     kind |-> "RATE_EXPIRED"],
    [kw |-> {"limit exceeded"}, codes |-> {LIMIT_EXCEEDED_CODE}, own |-> FALSE,
     kind |-> "LIMIT_EXCEEDED"],
    [kw |-> {}, codes |-> {ETIMEDOUT, ECONNABORTED}, own |-> TRUE,
     kind |-> "TIMEOUT"],
    [kw |-> {}, codes |-> {c \in CodeValues : c.t = "str" /\ c.v[1] = "E"},
     own |-> TRUE, kind |-> "NETWORK_ERROR"],
    [kw |-> {}, codes |-> CodeValues, own |-> TRUE,
     kind |-> "TECHNICAL_ERROR"]>>

\* The message text of an error: its message, or where it has none the
\* text its toString() gives.
C5_MessageText(error) ==
  IF error.msg.t # "absent" THEN error.msg ELSE error.str

\* The error is an object whose message text is text and whose code, where
\* present, is text.
C5_Text(error) ==
  /\ error.kind = "obj"
  /\ C5_MessageText(error).t = "str"
  /\ error.code.t \in {"str", "absent"}

C5_Matches(n, error) ==
  LET rule == C5_Rules[n]
      code == IF rule.own \/ error.code.t # "absent"
              THEN error.code ELSE error.rcode
  IN \/ rule.kw \cap C5_MessageText(error).kw # {}
     \/ code \in rule.codes

C5_First(error) ==
  CHOOSE n \in 1..Len(C5_Rules) :
    /\ C5_Matches(n, error)
    /\ \A m \in 1..(n - 1) : ~C5_Matches(m, error)

\* C5: classifyError gives every error with a text message and code the
\* kind of the first rule, in the order of the rule table, that matches
\* it, and never fails on such an error; "insufficient" with ECONNREFUSED
\* is InsufficientFunds, ETIMEDOUT is Timeout, no match is TechnicalError.
C5_FirstMatchWins ==
  /\ \A h \in HIds :
       hcalls[h].pc # "idle" /\ C5_Text(caught[1]) =>
         hcalls[h].err.type = C5_Rules[C5_First(caught[1])].kind
  /\ lastDone.crashed => ~C5_Text(caught[1])
  /\ classifyError(ErrorObj(StrMsg({"insufficient"}), ECONNREFUSED, Absent)).type
       = "INSUFFICIENT_FUNDS"
  /\ classifyError(ErrorObj(StrMsg({}), ETIMEDOUT, Absent)).type = "TIMEOUT"
  /\ classifyError(ErrorObj(StrMsg({}), UNKNOWN_CODE, Absent)).type
       = "TECHNICAL_ERROR"

\* The classifier was applied to an error with "insufficient" in its
\* message and code ECONNREFUSED, and gave InsufficientFunds.
C5_Witness ==
  /\ caught[1] = ErrorObj(StrMsg({"insufficient"}), ECONNREFUSED, Absent)
  /\ \E h \in HIds :
       hcalls[h].pc = "h1" /\ hcalls[h].err.type = "INSUFFICIENT_FUNDS"

\* ------------------------------------------------------------------- C6
\* C6: the retry policy follows the classified kind.  A retry timer for a
\* RateExpired error is only created while no retry is counted for the
\* order, allows one attempt and waits 0 ms; no timer is ever created for a
\* ComplianceBlocked or KycRequired error; a timer for any other kind has
\* the default policy (3 attempts, 5000 ms doubling per counted retry,
\* capped at 300000 ms).
C6_PolicyByKind ==
  /\ \A t \in TimerIds :
       timers[t].active =>
         /\ timers[t].kind \notin {"COMPLIANCE_BLOCKED", "KYC_REQUIRED"}
         /\ IF timers[t].kind = "RATE_EXPIRED"
            THEN /\ timers[t].attempts = 0
                 /\ timers[t].maxAttempts = 1
                 /\ timers[t].delay = 0
            ELSE /\ timers[t].attempts < 3
                 /\ timers[t].maxAttempts = 3
                 /\ timers[t].delay =
                      Min(5000 * Pow(2, timers[t].attempts), 300000)
  /\ \A h \in HIds :
       /\ hcalls[h].pc # "idle"
       /\ hcalls[h].err.type \in {"COMPLIANCE_BLOCKED", "KYC_REQUIRED"}
       => ~hcalls[h].scheduled

\* A RateExpired retry is pending with no wait, and a KycRequired error
\* for the same order ended in a refund request with nothing scheduled.
C6_Witness ==
  /\ \E t \in TimerIds :
       /\ timers[t].active /\ timers[t].kind = "RATE_EXPIRED"
       /\ timers[t].delay = 0
  /\ \E h \in HIds :
       /\ hcalls[h].pc = "hret" /\ hcalls[h].err.type = "KYC_REQUIRED"
       /\ hcalls[h].refund

\* ------------------------------------------------------------------- C7
\* C7: under the default policy and without cancelRetries, at most 3
\* retries of an order ever fire, and once 3 have fired no further retry
\* is scheduled for it.
C7_AtMostThreeRetries ==
  \A o \in OrderIds :
    /\ fired[o] <= 3
    /\ \A t \in TimerIds :
         timers[t].active /\ timers[t].orderId = o =>
           timers[t].firedBefore < 3

\* ------------------------------------------------------------------- C8
\* C8 as stated: the default-policy retry scheduled when n retries of the
\* order have already fired waits min(5000 * 2^n, 300000) ms.
C8_DelayByFiredCount ==
  \A t \in TimerIds :
    timers[t].active /\ timers[t].kind # "RATE_EXPIRED" =>
      timers[t].delay = Min(5000 * Pow(2, timers[t].firedBefore), 300000)

\* C8, amended: the default-policy retry scheduled when the order's stored
\* attempt count is n waits min(5000 * 2^n, 300000) ms: 5000, 10000 and
\* 20000 ms for n = 0, 1, 2, and never more than 300000 ms.
C8_DelayByAttemptCount ==
  \A t \in TimerIds :
    timers[t].active /\ timers[t].kind # "RATE_EXPIRED" =>
      /\ timers[t].attempts \in 0..2
      /\ timers[t].delay = <<5000, 10000, 20000>>[timers[t].attempts + 1]
      /\ timers[t].delay = Min(5000 * Pow(2, timers[t].attempts), 300000)
      /\ timers[t].delay <= 300000

\* Two retries have fired and the third retry of a TechnicalError is
\* pending with a wait of 20000 ms.
C8_Witness ==
  \E t \in TimerIds :
    /\ timers[t].active /\ timers[t].kind = "TECHNICAL_ERROR"
    /\ timers[t].attempts = 2 /\ timers[t].delay = 20000
    /\ fired[timers[t].orderId] = 2

\* ------------------------------------------------------------------- C9
\* C9: after cancelRetries(orderId), and until a handleDeliveryError call
\* for the order begins, the order has no pending timer, its attempt count
\* reads 0 and no delivery-retry fires for it.
C9_CancelStops ==
  \A o \in OrderIds :
    /\ cancelState[o] # "retried"
    /\ cancelState[o] = "cancelled" =>
         /\ ~HasTimer(o)
         /\ getRetryStatus(o) = [isRetrying |-> FALSE, attempts |-> 0]

\* ------------------------------------------------------------------ C10
\* C10: when the withdrawal stage fails because the anchor client raised an
\* error with code ECONNREFUSED, the call throws the AnchorUnavailable
\* message, the order is failed, and a retry was scheduled with a 5000 ms
\* delay.
C10_AnchorRefused ==
  \A id \in OrderIds :
    /\ pc[id] = "threw"
    /\ local[id].stage = "withdraw"
    /\ local[id].raised.kind = "obj"
    /\ local[id].raised.code = ECONNREFUSED
    => /\ orders[id].status = "failed"
       /\ result[id].msg = UserMessages["ANCHOR_UNAVAILABLE"]
       /\ \/ fired[id] > 0
          \/ \E t \in TimerIds :
               /\ timers[t].active /\ timers[t].orderId = id
               /\ timers[t].delay = 5000

\* ------------------------------------------------------------------ C11
\* The call was rejected for a fatal condition: no anchor for the corridor,
\* or (synchronous protocol) a delivery method the corridor does not offer.
C11_Fatal(id) ==
  /\ pc[id] = "threw"
  /\ \/ local[id].stage = "anchor"
     \/ /\ local[id].stage = "withdraw"
        /\ local[id].protocol = "sep6"
        /\ \A m \in getAvailableDeliveryMethods(local[id].country,
                                                local[id].currency) :
             m[3] # local[id].method

\* C11: a request that executeRemittance rejects for a fatal condition
\* (unknown delivery method, no anchor for the corridor) is rejected before
\* any external call: neither the swap build nor the bridge transfer was
\* requested for it.
C11_FailFast ==
  \A id \in OrderIds :
    C11_Fatal(id) =>
      \A k \in 1..Len(extCalls[id]) : extCalls[id][k] \notin {"swap", "bridge"}

\* ------------------------------------------------------------------ C12
\* C12: every order whose status is completed is in the store with its
\* bridge transaction id, settlement hash, payout transaction id and
\* completion time, and has been recorded by the metrics collector; and its
\* withdrawal request was sent and has returned.
C12_CompletedRecorded ==
  \A id \in OrderIds :
    orders[id].status = "completed" =>
      /\ id \in repoOrders
      /\ orders[id].htlcId
      /\ orders[id].stellarTxHash
      /\ orders[id].anchorTxId
      /\ orders[id].completedAt
      /\ id \in metricsOrders
      /\ \E k \in 1..Len(extCalls[id]) : extCalls[id][k] \in {"withdraw", "sep24"}
      /\ pc[id] \notin {"withdraw", "sep24"}

\* ------------------------------------------------------------------ C13
\* C13: no step of a getQuote call, whether the call goes on to return a
\* quote or to fail, changes the orders, the order store, the sender index,
\* the engine's order map, the metrics, the error handler's calls or the
\* retry bookkeeping; in particular it creates no order.
C13_QuoteFrame ==
  [][quote' # quote =>
       UNCHANGED <<orders, storeVars, hcalls, lastDone, retryVars>>]_vars

\* A getQuote call has failed for want of an anchor while orders are stored.
C13_Witness ==
  /\ quote.k = "threw"
  /\ quote.msg = "No anchor available"
  /\ repoOrders # {}
  /\ ordersByUser["0xA"] # <<>>

\* ------------------------------------------------------------------ C14
\* The supported delivery methods: those the per-anchor minutes table and
\* the delivery catalogue name, and none given ("").
C14_SupportedMethods ==
  {""} \cup UNION {DOMAIN deliveryTimes[a] : a \in AnchorCodes}
       \cup {m[3] : m \in deliveryMethods}

\* C14: every quote getQuote returns for a supported delivery method (a
\* quote is returned only for a chain with a wrapped asset and a corridor
\* with an anchor) has exactly three route steps, of kinds swap, bridge and
\* anchor in that order; the steps' fees add up to totalFees / 100, every
\* step's estimated time is a number of minutes, and these minutes add up
\* to estimatedTime.
C14_RouteTotals ==
  quote.k = "returned" /\ quote.deliveryMethod \in C14_SupportedMethods =>
    /\ Len(quote.route) = 3
    /\ quote.route[1].type = "swap"
    /\ quote.route[2].type = "bridge"
    /\ quote.route[3].type = "anchor"
    /\ (quote.route[1].fees + quote.route[2].fees + quote.route[3].fees) * 100
         = quote.totalFees
    /\ \A i \in 1..3 : quote.route[i].estimatedTime.t = "number"
    /\ quote.estimatedTime =
         JsNumber(quote.route[1].estimatedTime.n
                  + quote.route[2].estimatedTime.n
                  + quote.route[3].estimatedTime.n)

\* A quote for the Philippines corridor with delivery by gcash was returned.
C14_Witness ==
  /\ quote.k = "returned"
  /\ quote.toCurrency = "PHP"
  /\ quote.deliveryMethod = "gcash"
  /\ quote.estimatedTime = JsNumber(4)
  /\ quote.totalFees = 90000

\* ------------------------------------------------------------------ C15
\* A failure of the server or network class: the HTTP client rejected the
\* request with no response, or with a response of status 500 or above.
C15_ServerOrNetwork(error) ==
  error.origin = "http" /\ (error.status = 0 \/ error.status >= 500)

\* C15: the aggregator's getQuote waits 1 s, 2 s and 4 s before its
\* successive retries, at most three of them, and it retries only after a
\* failure of the server or network class (so never after a 4xx response).
C15_RetryOnlyServerOrNetwork ==
  /\ Len(quote.delays) <= 3
  /\ \A i \in 1..Len(quote.delays) : quote.delays[i] = 1000 * Pow(2, i - 1)
  /\ \A i \in 1..Len(quote.retriedAfter) :
       C15_ServerOrNetwork(quote.retriedAfter[i])

\* ------------------------------------------------------------------ C16
C16_Pending ==
  {"pending_user_transfer_start", "pending_anchor", "pending_stellar",
   "pending_external", "pending_trust", "pending_user"}

\* C16: getDeliveryStatus gives processing for the anchor status incomplete
\* and for every pending_* status, completed for completed, and failed for
\* error and for expired.
C16_Normalized ==
  query.fn = "getDeliveryStatus" =>
    LET status == query.args[1] IN
    /\ status \in {"incomplete"} \cup C16_Pending
         => query.value = JsString("processing")
    /\ status = "completed" => query.value = JsString("completed")
    /\ status \in {"error", "expired"} => query.value = JsString("failed")

\* ------------------------------------------------------------------ C18
\* C18: getAnchorForCorridor returns the anchor configured for the corridor
\* when there is one, otherwise the first registered anchor that supports
\* the currency, otherwise null; and an anchor it returns supports the
\* requested currency.
C18_AnchorSupportsCurrency ==
  query.fn = "getAnchorForCorridor" =>
    LET key == corridorKey(query.args[1], query.args[2])
        currency == query.args[3]
        supporting == {i \in 1..Len(Anchors) :
                         currency \in supportedCurrencies[Anchors[i]]}
    IN
    /\ key \in DOMAIN corridorMap => query.value = corridorMap[key]
    /\ key \notin DOMAIN corridorMap /\ supporting # {} =>
         /\ query.value \in {Anchors[i] : i \in supporting}
         /\ \A i \in supporting :
              \E j \in supporting : j <= i /\ Anchors[j] = query.value
    /\ key \notin DOMAIN corridorMap /\ supporting = {} => query.value = "none"
    /\ query.value # "none" => currency \in supportedCurrencies[query.value]

\* ------------------------------------------------------------------ C17
\* The number of places of a list that hold the id.
C17_Count(list, id) == Cardinality({k \in 1..Len(list) : list[k] = id})

\* C17: an order id is listed under a sender exactly when an order with
\* that id and that sender is stored, it is listed once, and findByUser
\* returns each such order exactly once.
C17_IndexAgrees ==
  /\ \A u \in DOMAIN ordersByUser, id \in OrderIds :
       /\ C17_Count(ordersByUser[u], id) > 0
            <=> (id \in repoOrders /\ orders[id].sender = u)
       /\ C17_Count(ordersByUser[u], id) <= 1
  /\ query.fn = "findByUser" =>
       \A id \in OrderIds : C17_Count(query.list, id) <= 1

\* ------------------------------------------------------------------ C19
\* C19: the order is stored with status pending before it becomes
\* processing, and every step of executeRemittance that issues an external
\* request finds the order stored and processing: no request is issued
\* while the order is pending.
C19_ProcessingBeforeCalls ==
  [][\A id \in OrderIds :
       /\ orders'[id].status = "processing" /\ orders[id].status # "processing"
            => orders[id].status = "pending" /\ id \in repoOrders
       /\ extCalls'[id] # extCalls[id]
            => orders[id].status = "processing" /\ id \in repoOrders]_vars

\* The swap build, the first external request, is waited for.
C19_Witness ==
  \E id \in OrderIds :
    /\ pc[id] = "swap"
    /\ extCalls[id] = <<"swap">>
    /\ orders[id].status = "processing"
    /\ id \in repoOrders

\* ------------------------------------------------------------------ C20
\* The request `r` may be issued by a call that is at `at`: the swap build
\* by a call that has set processing, the bridge transfer when the swap
\* build returns, the protocol probe once the bridge has returned and the
\* anchor is resolved, the withdrawal requests when the probe (then the
\* authentication) returns.
C20_Follows(at, r) ==
  \/ at = "processing" /\ r = "swap"
  \/ at = "swap" /\ r = "bridge"
  \/ at = "anchor" /\ r = "probe"
  \/ at = "probe" /\ r \in {"auth", "withdraw", "sep24"}
  \/ at = "auth" /\ r = "token"
  \/ at = "authed" /\ r = "withdraw"

\* C20: within one executeRemittance call the stages run one at a time in
\* the order swap build, bridge, anchor resolution, protocol probe,
\* withdrawal: a request is issued only by the step in which the previous
\* stage returned, and a call in which a stage has failed issues no more.
C20_StagesInOrder ==
  [][\A id \in OrderIds :
       /\ extCalls'[id] # extCalls[id] =>
            /\ Len(extCalls'[id]) = Len(extCalls[id]) + 1
            /\ SubSeq(extCalls'[id], 1, Len(extCalls[id])) = extCalls[id]
            /\ C20_Follows(pc[id], extCalls'[id][Len(extCalls'[id])])
            /\ pc'[id] = extCalls'[id][Len(extCalls'[id])]
            /\ local[id].stage = "none"
       /\ pc[id] = "anchor" => pc'[id] \in {"anchor", "probe", "handling", "threw"}
       /\ local[id].stage # "none" => extCalls'[id] = extCalls[id]]_vars

\* A call went through all its stages and returned.
C20_Witness ==
  \E id \in OrderIds :
    /\ pc[id] = "returned"
    /\ extCalls[id] = <<"swap", "bridge", "probe", "auth", "token", "withdraw">>

\* ------------------------------------------------------------------ C21
\* What is kept for one order: the order object (status and recorded ids),
\* its retry queue entry, its attempt count, the retries fired for it and
\* the timers set for it.
C21_Data(id) ==
  <<orders[id], retryQueues[id], retryAttempts[id], fired[id],
    [t \in TimerIds |-> IF timers[t].orderId = id THEN timers[t] ELSE NoTimer]>>

\* C21: with executeRemittance calls interleaved, a step that changes what
\* is kept for one order (a stage, its failure, the error handling, a
\* retry timer) changes nothing of any other order and moves no other call.
C21_Isolation ==
  [][\A id \in OrderIds :
       C21_Data(id)' # C21_Data(id) =>
         \A other \in OrderIds \ {id} :
           /\ C21_Data(other)' = C21_Data(other)
           /\ pc'[other] = pc[other]
           /\ hcalls'[other] = hcalls[other]]_vars

\* One order has failed and has a retry timer pending while the other
\* order, submitted meanwhile, is completed.
C21_Witness ==
  \E id \in OrderIds, other \in OrderIds :
    /\ orders[id].status = "failed"
    /\ HasTimer(id)
    /\ orders[other].status = "completed"
    /\ ~HasTimer(other)

\* ------------------------------------------------------------------ C22
\* C22: the aggregator's getQuote and buildSwapTx send no request when a
\* token address does not match the address pattern, and the call then
\* fails without being retried.
C22_ValidatedBeforeRequest ==
  /\ quote.pc # "idle" /\ ~(quote.fromTokenValid /\ quote.toTokenValid) =>
       quote.requests = 0 /\ quote.delays = <<>>
  /\ query.fn = "buildSwapTx" /\ ~(query.args[1] /\ query.args[2]) =>
       query.value # "request"

\* ------------------------------------------------------------------ C23
\* C23 as stated: recommendProtocol gives sep24 when the interactive
\* capability of the asset requires authentication, and sep6 otherwise.
C23_Sep6UnlessAuthRequired ==
  query.fn = "recommendProtocol" =>
    query.value = IF query.args[2] /\ query.args[3] THEN "sep24" ELSE "sep6"

\* C23, amended: recommendProtocol always gives one of the two protocols;
\* it gives sep24 exactly when the interactive probe succeeded and either
\* the capability requires authentication or the synchronous probe failed.
C23_ProtocolChoice ==
  query.fn = "recommendProtocol" =>
    /\ query.value \in {"sep6", "sep24"}
    /\ query.value = "sep24"
         <=> (query.args[2] /\ (query.args[3] \/ ~query.args[1]))

\* Only the interactive probe succeeded, with no authentication required.
C23_Witness ==
  /\ query.fn = "recommendProtocol"
  /\ query.args = <<FALSE, TRUE, FALSE>>
  /\ query.value = "sep24"

\* ------------------------------------------------------------------ C24
\* C24: a step that sends a synchronous withdrawal request finds a token
\* for the anchor stored on the service instance that sends it; a token
\* appears on an instance only when an authentication with that anchor
\* returns there, and a call stopped at the token check sends nothing.
C24_TokenBeforeWithdraw ==
  [][\A id \in OrderIds :
       /\ extCalls'[id] # extCalls[id]
           /\ extCalls'[id][Len(extCalls'[id])] = "withdraw"
            => local'[id].anchor
                 \in authTokens'[instanceOf(local'[id].anchor)]
       /\ \A inst \in DOMAIN authTokens :
            \A a \in authTokens'[inst] \ authTokens[inst] :
              \E c \in OrderIds :
                /\ pc[c] = "token" /\ pc'[c] = "authed"
                /\ local[c].anchor = a /\ instanceOf(a) = inst
       /\ pc[id] \in {"probe", "auth", "token", "authed"}
            /\ pc'[id] \in {"handling", "threw"}
            => extCalls'[id] = extCalls[id]]_vars

\* A synchronous withdrawal request is waited for, its token stored.
C24_Witness ==
  \E id \in OrderIds :
    /\ pc[id] = "withdraw"
    /\ local[id].protocol = "sep6"
    /\ local[id].anchor \in authTokens[instanceOf(local[id].anchor)]

\* ------------------------------------------------------------------ C25
\* C25: when the handleDeliveryError call that ended last for an order
\* emitted refund-required or manual-review-required, and no call is in
\* flight, no retry timer is pending for that order.
C25_NoTimerAfterFinalEvent ==
  /\ lastDone.refund \/ lastDone.manual
  /\ \A h \in HIds : hcalls[h].pc = "idle"
  => ~HasTimer(lastDone.orderId)

\* ------------------------------------------------------------------ C26
\* The timers pending for an order.
C26_Pending(orderId) ==
  {t \in TimerIds : timers[t].active /\ timers[t].orderId = orderId}

\* C26: at most one retry timer is pending per order, and it is the one
\* the order's retry queue entry names.
C26_OneTimerPerOrder ==
  \A id \in OrderIds :
    /\ Cardinality(C26_Pending(id)) <= 1
    /\ \A t \in C26_Pending(id) : retryQueues[id] = t

\* Two handleDeliveryError calls for the same order, in flight together,
\* have each scheduled a retry, and one timer is pending.
C26_Witness ==
  \E g \in HIds, h \in HIds :
    /\ g # h
    /\ hcalls[g].pc = "hret" /\ hcalls[g].scheduled
    /\ hcalls[h].pc = "hret" /\ hcalls[h].scheduled
    /\ hcalls[g].orderId = hcalls[h].orderId
    /\ Cardinality(C26_Pending(hcalls[g].orderId)) = 1

\* ------------------------------------------------------------------ C27
\* C27: the attempt count of an order never exceeds 3, and it grows only
\* in a step in which a retry timer of the order fires, by exactly one.
C27_CounterGrowsByOne ==
  [][\A id \in OrderIds :
       /\ attemptsOf(retryAttempts', id) <= 3
       /\ attemptsOf(retryAttempts', id) > attemptsOf(retryAttempts, id) =>
            /\ fired'[id] = fired[id] + 1
            /\ attemptsOf(retryAttempts', id)
                 = attemptsOf(retryAttempts, id) + 1]_vars

\* ------------------------------------------------------------------ C28
\* C28: a call that took the synchronous path with a deliverable method
\* and has gone past the protocol choice sent an authentication request
\* to its anchor before anything else of the payout stage happened.
C28_AuthBeforeWithdraw ==
  \A id \in OrderIds :
    /\ local[id].protocol = "sep6"
    /\ \E m \in getAvailableDeliveryMethods(local[id].country,
                                            local[id].currency) :
         m[3] = local[id].method
    => \E i \in 1..Len(extCalls[id]) : extCalls[id][i] = "auth"

\* ------------------------------------------------------------------ C29
\* C29: in the basic engine every order whose status is completed has the
\* id of an anchor withdrawal request recorded.
C29_CompletedHasAnchorTx ==
  \A id \in OrderIds :
    orders[id].status = "completed" => orders[id].anchorTxId

\* ------------------------------------------------------------------ C30
\* C30: a call that returned an order left it completed; an order whose
\* status is failed is in the engine's map, where getOrderStatus reads it,
\* its call has not returned, and once that call has ended it has thrown.
C30_ReturnOnlyCompleted ==
  \A id \in OrderIds :
    /\ result[id].k = "returned" => orders[id].status = "completed"
    /\ orders[id].status = "failed" =>
         /\ id \in engineOrders
         /\ result[id].k # "returned"
         /\ pc[id] \in {"returned", "threw"} => result[id].k = "threw"

\* One call returned its completed order and another threw, its order failed.
C30_Witness ==
  \E a \in OrderIds, b \in OrderIds :
    /\ result[a].k = "returned" /\ orders[a].status = "completed"
    /\ result[b].k = "threw" /\ orders[b].status = "failed"
    /\ b \in engineOrders

====
